---- MODULE Spec2Model ----
(***************************************************************************)
(* HTMLTestReport (src/Test_Log_Generator.py): the incremental report      *)
(* builder.  Text is modelled as a sequence of atoms: a markup literal of  *)
(* the source is one atom, caller-supplied text (a cell, a title) is the   *)
(* sequence of its characters.  A block of self.lines is such a sequence.  *)
(***************************************************************************)
EXTENDS Integers, Sequences, FiniteSets, TLC

(***************************************************************************)
(* Python's None.                                                          *)
(***************************************************************************)
None == <<>>

(***************************************************************************)
(* Natural numbers of unbounded width, as bit sequences, least             *)
(* significant bit first, without leading zeros (zero is <<>>).  They      *)
(* carry the 53-bit significands of Python's float (IEEE binary64).        *)
(* Recursion is by halves, which keeps the evaluation shallow.             *)
(***************************************************************************)
Sq(x) == x * x

RECURSIVE Pow2(_)
\* 2^k, k < 31
Pow2(k) == IF k = 0 THEN 1 ELSE (IF k % 2 = 1 THEN 2 ELSE 1) * Sq(Pow2(k \div 2))

RECURSIVE Pow2Mod(_, _)
\* 2^k mod d, d * d < 2^31
Pow2Mod(k, d) ==
    IF k = 0 THEN 1 % d
    ELSE ((IF k % 2 = 1 THEN 2 ELSE 1) * (Sq(Pow2Mod(k \div 2, d)) % d)) % d

\* the number of bits of n, n < 2^30
BitLen(n) == CHOOSE l \in 0..30 : n < Pow2(l) /\ (l = 0 \/ Pow2(l - 1) <= n)

NatBits(n) == [i \in 1..BitLen(n) |-> (n \div Pow2(i - 1)) % 2] \o <<>>

Zeros(k) == [i \in 1..k |-> 0] \o <<>>

BitAt(b, i) == IF i <= Len(b) THEN b[i] ELSE 0

\* b without its leading zeros
Trim(b) ==
    SubSeq(b, 1, IF \E i \in 1..Len(b) : b[i] = 1
                 THEN CHOOSE i \in 1..Len(b) :
                         b[i] = 1 /\ \A j \in (i + 1)..Len(b) : b[j] = 0
                 ELSE 0)

\* one column of an addition: the sum bit and the carry out
Column(t) == [s |-> <<t % 2>>, c |-> t \div 2]

\* two adjacent ranges of columns, the lower one first
Join(low, high) == [s |-> low.s \o high.s, c |-> high.c]

RECURSIVE AddRange(_, _, _, _, _), AddHigh(_, _, _, _, _)
\* bits lo..hi of a + b + cin, and the carry out of bit hi
AddRange(a, b, lo, hi, cin) ==
    IF lo = hi THEN Column(BitAt(a, lo) + BitAt(b, lo) + cin)
    ELSE AddHigh(a, b, (lo + hi) \div 2, hi,
                 AddRange(a, b, lo, (lo + hi) \div 2, cin))

AddHigh(a, b, mid, hi, low) == Join(low, AddRange(a, b, mid + 1, hi, low.c))

WithCarry(r) == r.s \o (IF r.c = 1 THEN <<1>> ELSE <<>>)

\* a + b + cin for a # <<>>, Len(a) >= Len(b)
BitsAdd(a, b, cin) == WithCarry(AddRange(a, b, 1, Len(a), cin))

\* the complement of b on n bits
Not(b, n) == [i \in 1..n |-> 1 - BitAt(b, i)]

\* a - b for a >= b, a # <<>>: a + ~b + 1 without the carry out
BitsSub(a, b) == Trim(AddRange(a, Not(b, Len(a)), 1, Len(a), 1).s)

\* -1, 0, 1 as a < b, a = b, a > b
BitsCmp(a, b) ==
    IF Len(a) # Len(b) THEN (IF Len(a) < Len(b) THEN -1 ELSE 1)
    ELSE IF a = b THEN 0
    ELSE IF \E i \in 1..Len(a) :
               a[i] < b[i] /\ \A j \in (i + 1)..Len(a) : a[j] = b[j]
         THEN -1 ELSE 1

ShiftL(b, k) == Zeros(k) \o b

(***************************************************************************)
(* A float is [sgn, m, e]: value sgn * m * 2^e, m of MantBits bits with    *)
(* the top bit set, or sgn = 0 and m = <<>> for zero.  The cells of the    *)
(* model stay far from overflow, subnormals, inf and nan.                  *)
(***************************************************************************)
MantBits == 53

FZero == [sgn |-> 0, m |-> <<>>, e |-> 0]

\* kept + 1 when the dropped part is above one half, or is one half and kept
\* is odd (round-half-to-even)
RoundUp(kept, guard, rest) ==
    IF guard = 1 /\ (rest \/ kept[1] = 1) THEN BitsAdd(kept, <<>>, 1) ELSE kept

\* a carry out of the top bit moves the exponent
Renorm(sgn, r, e) ==
    IF Len(r) > MantBits
    THEN [sgn |-> sgn, m |-> Tail(r), e |-> e + 1]
    ELSE [sgn |-> sgn, m |-> r, e |-> e]

\* the float nearest to bits * 2^e (plus a nonzero tail below when sticky)
RoundBits(sgn, bits, e, sticky) ==
    IF Len(bits) <= MantBits
    THEN [sgn |-> sgn, m |-> Zeros(MantBits - Len(bits)) \o bits,
          e |-> e - (MantBits - Len(bits))]
    ELSE Renorm(sgn,
                RoundUp(SubSeq(bits, Len(bits) - MantBits + 1, Len(bits)),
                        bits[Len(bits) - MantBits],
                        sticky \/ \E i \in 1..(Len(bits) - MantBits - 1) :
                                      bits[i] = 1),
                e + Len(bits) - MantBits)

\* (r * 2^k) mod d: what is left of r / d below its first k binary places
Rem(r, d, k) == (r * Pow2Mod(k, d)) % d

\* the k-th binary place of r / d, r < d
FracBit(r, d, k) == IF 2 * Rem(r, d, k - 1) >= d THEN 1 ELSE 0

\* the places first..last of r / d, the last one first
FracBits(r, d, first, last) ==
    [j \in 1..(last - first + 1) |-> FracBit(r, d, last + 1 - j)] \o <<>>

\* n / d cut after its binary place last: bits * 2^(-last) and a tail
Cut(n, d, first, last) ==
    [bits   |-> FracBits(n % d, d, first, last) \o NatBits(n \div d),
     e      |-> 0 - last,
     sticky |-> Rem(n % d, d, last) # 0]

\* the first binary place of r / d that is 1, 0 < r < d
FirstPlace(r, d) == CHOOSE k \in 1..14 : r * Pow2(k) >= d /\ r * Pow2(k - 1) < d

\* n / d to MantBits + 2 significant bits
Expand(n, d) ==
    IF n >= d THEN Cut(n, d, 1, MantBits + 2 - BitLen(n \div d))
    ELSE Cut(n, d, FirstPlace(n, d), FirstPlace(n, d) + MantBits + 1)

RoundExpansion(sgn, x) == RoundBits(sgn, x.bits, x.e, x.sticky)

\* the float nearest to n / d, for n < 2^30 and d <= 10000
FloatOfRatio(sgn, n, d) ==
    IF n = 0 THEN FZero ELSE RoundExpansion(sgn, Expand(n, d))

FNeg(a) == [a EXCEPT !.sgn = 0 - a.sgn]

MagCmp(a, b) ==
    IF a.e # b.e THEN (IF a.e < b.e THEN -1 ELSE 1) ELSE BitsCmp(a.m, b.m)

\* sa * am + sb * bm, for am, bm > 0 at one exponent e0 and c = BitsCmp(am, bm)
AddMag(sa, am, sb, bm, e0, c) ==
    IF sa # sb /\ c = 0 THEN FZero
    ELSE RoundBits(IF sa = sb \/ c > 0 THEN sa ELSE sb,
                   IF sa = sb
                   THEN BitsAdd(IF c >= 0 THEN am ELSE bm,
                                IF c >= 0 THEN bm ELSE am, 0)
                   ELSE BitsSub(IF c > 0 THEN am ELSE bm,
                                IF c > 0 THEN bm ELSE am),
                   e0, FALSE)

AddAligned(sa, am, sb, bm, e0) == AddMag(sa, am, sb, bm, e0, BitsCmp(am, bm))

AddAt(a, b, e0) ==
    AddAligned(a.sgn, ShiftL(a.m, a.e - e0), b.sgn, ShiftL(b.m, b.e - e0), e0)

FAdd(a, b) ==
    IF a.sgn = 0 THEN b
    ELSE IF b.sgn = 0 THEN a
    ELSE AddAt(a, b, IF a.e < b.e THEN a.e ELSE b.e)

FSub(a, b) == FAdd(a, FNeg(b))

FLe(a, b) ==
    IF a.sgn # b.sgn THEN a.sgn < b.sgn
    ELSE IF a.sgn = 0 THEN TRUE
    ELSE a.sgn * MagCmp(a, b) <= 0

(***************************************************************************)
(* float(str) on the characters of a cell: an optional sign, digits with   *)
(* at most one point, at least one digit.  Anything else is a ValueError.  *)
(* Exponents, blanks, underscores, "inf" and "nan" do not occur in the      *)
(* cells enumerated below and are not parsed here.                         *)
(***************************************************************************)
Digits == <<"0", "1", "2", "3", "4", "5", "6", "7", "8", "9">>

IsDigit(c) == \E i \in 1..10 : Digits[i] = c

DigitVal(c) == (CHOOSE i \in 1..10 : Digits[i] = c) - 1

RECURSIVE Pow10(_)
Pow10(k) == IF k = 0 THEN 1 ELSE 10 * Pow10(k - 1)

\* the number written by the digits of s, the point skipped
RECURSIVE DigitsVal(_, _)
DigitsVal(s, acc) ==
    IF s = <<>> THEN acc
    ELSE IF Head(s) = "." THEN DigitsVal(Tail(s), acc)
    ELSE DigitsVal(Tail(s), 10 * acc + DigitVal(Head(s)))

HasSign(s) == s # <<>> /\ s[1] \in {"-", "+"}

Unsigned(s) == IF HasSign(s) THEN Tail(s) ELSE s

IsNumeral(s) ==
    LET u == Unsigned(s)
    IN  /\ \A i \in 1..Len(u) : IsDigit(u[i]) \/ u[i] = "."
        /\ Cardinality({i \in 1..Len(u) : u[i] = "."}) <= 1
        /\ \E i \in 1..Len(u) : IsDigit(u[i])

\* digits after the point
FracLen(u) ==
    IF \E i \in 1..Len(u) : u[i] = "."
    THEN Len(u) - (CHOOSE i \in 1..Len(u) : u[i] = ".")
    ELSE 0

ValueError == [ok |-> FALSE]

float(s) ==
    IF ~IsNumeral(s) THEN ValueError
    ELSE [ok |-> TRUE,
          v  |-> FloatOfRatio(IF s[1] = "-" THEN -1 ELSE 1,
                              DigitsVal(Unsigned(s), 0),
                              Pow10(FracLen(Unsigned(s))))]

(***************************************************************************)
(* Optional values: None is the empty tuple, a value x that is present is  *)
(* <<x>>.  A column name is a string; None and "" are both falsy.          *)
(***************************************************************************)
Some(x) == <<x>>

Truthy(col) == col # None /\ col[1] # ""

(***************************************************************************)
(* Markup literals of add_table and _process_row_with_specs.  CheckGlyph    *)
(* and CrossGlyph are a blank and the check mark U+2713, the ballot cross  *)
(* U+2717.                                                                 *)
(***************************************************************************)
Tbl ==
    [TableTitleOpen  |-> "    <div style=\"font-weight: 600; margin: 15px 0 5px 0;\">",
     TableTitleClose |-> "</div>\n",
     TableOpen       |-> "    <table class=\"",
     CategoryPrefix  |-> " category-",
     THeadOpen       |-> "\">\n        <thead>\n            <tr>\n",
     ThOpen          |-> "                <th>",
     ThClose         |-> "</th>\n",
     TBodyOpen       |-> "            </tr>\n        </thead>\n        <tbody>\n",
     TBodyClose      |-> "        </tbody>",
     TableClose      |-> "\n    </table>\n",
     TrOpen          |-> "            <tr>\n",
     TrClose         |-> "            </tr>\n",
     TdOpen          |-> "                <td",
     TagEnd          |-> ">",
     TdClose         |-> "</td>\n",
     CellPass        |-> " class=\"cell-pass\"",
     CellFail        |-> " class=\"cell-fail\"",
     CheckGlyph      |-> " (U+2713)",
     CrossGlyph      |-> " (U+2717)"]

(***************************************************************************)
(* Exceptions: an operation yields [exc |-> None, ...] or [exc |-> <<e>>]. *)
(***************************************************************************)
Raise(e) == [exc |-> Some(e)]

\* headers.index(col): the first position (0-based) of col, or ValueError
index(headers, col) ==
    IF \E i \in 1..Len(headers) : headers[i] = col
    THEN [exc |-> None,
          i |-> (CHOOSE i \in 1..Len(headers) :
                    /\ headers[i] = col
                    /\ \A j \in 1..(i - 1) : headers[j] # col) - 1]
    ELSE Raise("ValueError")

\* float(row[idx]): IndexError past the end of the row, ValueError from float
float_cell(row, idx) ==
    IF idx >= Len(row) THEN Raise("IndexError")
    ELSE IF IsNumeral(row[idx + 1])
         THEN [exc |-> None, v |-> float(row[idx + 1]).v]
         ELSE Raise("ValueError")

\* the exceptions caught by the except clauses of _process_row_with_specs
ExceptIndex == {"ValueError"}

\* except ValueError alone
ExceptMeasured_value == {"ValueError"}

ExceptMeasured == {"ValueError", "IndexError"}

ExceptBounds == {"ValueError", "IndexError"}

RECURSIVE Cells(_, _, _, _)
\* the <td> elements of the cells from position i (0-based) on; the cell at
\* marked_idx carries the class and the glyph of is_pass
Cells(row, i, marked_idx, is_pass) ==
    IF i >= Len(row) THEN <<>>
    ELSE (IF Some(i) = marked_idx
          THEN <<Tbl.TdOpen, IF is_pass THEN Tbl.CellPass ELSE Tbl.CellFail, Tbl.TagEnd>>
               \o row[i + 1]
               \o <<IF is_pass THEN Tbl.CheckGlyph ELSE Tbl.CrossGlyph, Tbl.TdClose>>
          ELSE <<Tbl.TdOpen, Tbl.TagEnd>> \o row[i + 1] \o <<Tbl.TdClose>>)
         \o Cells(row, i + 1, marked_idx, is_pass)

regular_row(row) == <<Tbl.TrOpen>> \o Cells(row, 0, None, FALSE) \o <<Tbl.TrClose>>

\* the marker put on the first cell of the row
marked_row_first(row, measured_idx, is_pass) ==
    <<Tbl.TrOpen>> \o Cells(row, 0, Some(0), is_pass) \o <<Tbl.TrClose>>

marked_row(row, measured_idx, is_pass) ==
    <<Tbl.TrOpen>> \o Cells(row, 0, Some(measured_idx), is_pass) \o <<Tbl.TrClose>>

\* the upper bound inclusive, the lower one exclusive
InLimits_exclusive(lower_limit, measured_value, upper_limit) ==
    ~FLe(measured_value, lower_limit) /\ FLe(measured_value, upper_limit)

\* lower_limit <= measured_value <= upper_limit
InLimits(lower_limit, measured_value, upper_limit) ==
    \A p \in {<<lower_limit, measured_value>>, <<measured_value, upper_limit>>} :
        FLe(p[1], p[2])

RECURSIVE indices(_, _)
\* headers.index(col) for each col of cols in turn: the positions, or the
\* first exception
indices(headers, cols) ==
    IF cols = <<>> THEN [exc |-> None, is |-> <<>>]
    ELSE IF index(headers, Head(cols)).exc # None
         THEN Raise("ValueError")
         ELSE IF indices(headers, Tail(cols)).exc # None
              THEN Raise("ValueError")
              ELSE [exc |-> None,
                    is  |-> <<index(headers, Head(cols)).i>>
                            \o indices(headers, Tail(cols)).is]

\* float(row[i]) for the one position of idxs
float_first(row, idxs) == float_cell(row, idxs[1])

RECURSIVE floats(_, _)
\* float(row[i]) for each i of idxs in turn: the values, or the first exception
floats(row, idxs) ==
    IF idxs = <<>> THEN [exc |-> None, vs |-> <<>>]
    ELSE IF float_first(row, idxs).exc # None THEN float_first(row, idxs)
         ELSE IF floats(row, Tail(idxs)).exc # None
              THEN floats(row, Tail(idxs))
              ELSE [exc |-> None,
                    vs  |-> <<float_first(row, idxs).v>>
                            \o floats(row, Tail(idxs)).vs]

\* lower_limit and upper_limit of a method from its two cells
limits(v, by_tolerance) ==
    IF by_tolerance
    THEN [k \in {-1, 1} |-> FAdd(v[1], IF k = 1 THEN v[2] ELSE FNeg(v[2]))]
    ELSE [k \in {-1, 1} |-> IF k = 1 THEN v[2] ELSE v[1]]

pass_within(lim, measured_value) == InLimits(lim[-1], measured_value, lim[1])

\* the rest of a try block once the columns are found
cells_try(row, measured_value, idxs, by_tolerance) ==
    IF idxs.exc # None THEN idxs
    ELSE IF floats(row, idxs.is).exc # None THEN floats(row, idxs.is)
    ELSE [exc |-> None,
          is_pass |-> pass_within(limits(floats(row, idxs.is).vs,
                                         by_tolerance),
                                  measured_value)]

\* the try block of one bound method: col1, col2 are (nominal, tolerance) or
\* (lower, upper); yields is_pass, or the exception raised on the way
bounds_try(headers, row, measured_value, col1, col2, by_tolerance) ==
    cells_try(row, measured_value, indices(headers, <<col1, col2>>),
              by_tolerance)

\* except (ValueError, IndexError): pass
bounds_except(t) ==
    IF t.exc # None /\ t.exc[1] \in ExceptBounds
    THEN [exc |-> None, is_pass |-> FALSE] ELSE t

\* the nominal method tried after the limits method
nominal_method_second(specs) ==
    /\ Truthy(specs.nominal_col) /\ Truthy(specs.tolerance_col)
    /\ ~(Truthy(specs.lower_spec_col) /\ Truthy(specs.upper_spec_col))

\* if nominal_col and tolerance_col
nominal_method(specs) ==
    Truthy(specs.nominal_col) /\ Truthy(specs.tolerance_col)

\* elif lower_spec_col and upper_spec_col
limits_method(specs) ==
    ~nominal_method(specs)
    /\ Truthy(specs.lower_spec_col) /\ Truthy(specs.upper_spec_col)

\* is_pass after the if / elif of the two bound methods
determine_pass(specs, row, measured_value) ==
    IF nominal_method(specs) \/ limits_method(specs)
    THEN bounds_except(
            bounds_try(specs.headers, row, measured_value,
                       IF nominal_method(specs)
                       THEN specs.nominal_col[1] ELSE specs.lower_spec_col[1],
                       IF nominal_method(specs)
                       THEN specs.tolerance_col[1] ELSE specs.upper_spec_col[1],
                       nominal_method(specs)))
    ELSE [exc |-> None, is_pass |-> FALSE]

\* the row once is_pass is determined
build_row(row, measured_idx, d) ==
    IF d.exc # None THEN d
    ELSE [exc |-> None, html |-> marked_row(row, measured_idx, d.is_pass)]

\* a measured cell that cannot be read counted as a failure
unparsed_row_fail(row, measured_idx) == marked_row(row, measured_idx, FALSE)

\* the row returned by except (ValueError, IndexError) of the measured cell
unparsed_row(row, measured_idx) == regular_row(row)

\* the row once the measured cell is read
with_measured(sp, row, measured_idx, mv) ==
    IF mv.exc # None
    THEN (IF mv.exc[1] \in ExceptMeasured
          THEN [exc |-> None, html |-> unparsed_row(row, measured_idx)]
          ELSE mv)
    ELSE build_row(row, measured_idx, determine_pass(sp, row, mv.v))

\* the row once the measured column is looked up
with_index(sp, row, mi) ==
    IF mi.exc # None
    THEN (IF mi.exc[1] \in ExceptIndex
          THEN [exc |-> None, html |-> regular_row(row)] ELSE mi)
    ELSE with_measured(sp, row, mi.i, float_cell(row, mi.i))

\* _process_row_with_specs with self.last_table_specs = specs
process_row_with_specs(specs, row) ==
    IF specs = None \/ ~Truthy(specs[1].measured_col)
    THEN [exc |-> None, html |-> regular_row(row)]
    ELSE with_index(specs[1], row,
                    index(specs[1].headers, specs[1].measured_col[1]))

(***************************************************************************)
(* The builder.  lines, last_table_index, last_table_specs, header_items,  *)
(* section_counter, current_section_title and collapsible are the fields   *)
(* of HTMLTestReport.  Three more variables record the history of the      *)
(* calls: call is the last call and the exception it raised (with the      *)
(* arguments of a section call), opened the arguments of the last          *)
(* add_table call, given the rows the table opened by it has taken so far. *)
(***************************************************************************)
VARIABLES lines, last_table_index, last_table_specs, header_items,
          section_counter, current_section_title, collapsible,
          call, opened, given

vars == <<lines, last_table_index, last_table_specs, header_items,
          section_counter, current_section_title, collapsible,
          call, opened, given>>

\* the block appended by _init_html, cut at the banner placeholder, and the
\* literals of _build_banner_items and finalize
Page ==
    [HtmlHead          |-> "<!DOCTYPE html> ... <div class=\"banner-items-container\" id=\"banner-items-container\">\n",
     BannerPlaceholder |-> "            <!-- Banner items will be inserted here -->",
     HtmlBodyOpen      |-> "\n        </div>\n    </div>\n    <div class=\"container\">\n",
     ItemOpen          |-> "            <div class=\"banner-item\">\n                <div class=\"banner-item-title\">",
     ItemMid           |-> "</div>\n                <div class=\"banner-item-value\">",
     ItemClose         |-> "</div>\n            </div>\n",
     Footer            |-> "    </div>\n    <div class=\"footer ...\"> ... </div>\n</body>\n</html>"]
html_header == <<Page.HtmlHead, Page.BannerPlaceholder, Page.HtmlBodyOpen>>

Init ==
    /\ collapsible \in BOOLEAN
    /\ lines = <<html_header>>
    /\ last_table_index = None
    /\ last_table_specs = None
    /\ header_items = <<>>
    /\ section_counter = 0
    /\ current_section_title = None
    /\ call = [op |-> "__init__", raised |-> None]
    /\ opened = None
    /\ given = <<>>

\* the atom never found
rfind_missing(text, atom) == 0 - Len(<<atom>>)

\* text.rfind(atom): the last position (0-based) of atom, or -1
rfind(text, atom) ==
    IF \E i \in 1..Len(text) : text[i] = atom
    THEN (CHOOSE i \in 1..Len(text) :
             /\ text[i] = atom
             /\ \A j \in (i + 1)..Len(text) : text[j] # atom) - 1
    ELSE -1

RECURSIVE header_cells(_)
header_cells(headers) ==
    IF headers = <<>> THEN <<>>
    ELSE <<Tbl.ThOpen, Head(headers), Tbl.ThClose>> \o header_cells(Tail(headers))

\* the loop over the initial rows: the rows' markup, or the first exception
RECURSIVE rows_html(_, _)
rows_html(specs, rows) ==
    IF rows = <<>> THEN [exc |-> None, html |-> <<>>]
    ELSE LET r == process_row_with_specs(specs, Head(rows)) IN
         IF r.exc # None THEN r
         ELSE LET rest == rows_html(specs, Tail(rows)) IN
              IF rest.exc # None THEN rest
              ELSE [exc |-> None, html |-> r.html \o rest.html]

table_head(headers, title, category) ==
    (IF title # None /\ title[1] # <<>>
     THEN <<Tbl.TableTitleOpen>> \o title[1] \o <<Tbl.TableTitleClose>> ELSE <<>>)
    \o <<Tbl.TableOpen>>
    \o (IF Truthy(category) THEN <<Tbl.CategoryPrefix, category[1]>> ELSE <<>>)
    \o <<Tbl.THeadOpen>> \o header_cells(headers) \o <<Tbl.TBodyOpen>>

\* a measured column left out taken over from the table before
table_specs_carried(headers, measured_col, nominal_col, tolerance_col, lower_spec_col, upper_spec_col) ==
    [headers        |-> headers,
     measured_col   |-> IF measured_col = None /\ last_table_specs # None
                        THEN last_table_specs[1].measured_col
                        ELSE measured_col,
     nominal_col    |-> nominal_col,
     tolerance_col  |-> tolerance_col,
     lower_spec_col |-> lower_spec_col,
     upper_spec_col |-> upper_spec_col]

\* the dictionary stored in self.last_table_specs
table_specs(headers, measured_col, nominal_col, tolerance_col, lower_spec_col, upper_spec_col) ==
    [headers        |-> headers,
     measured_col   |-> measured_col,
     nominal_col    |-> nominal_col,
     tolerance_col  |-> tolerance_col,
     lower_spec_col |-> lower_spec_col,
     upper_spec_col |-> upper_spec_col]

\* add_table once self.last_table_specs = specs is stored
open_table(specs, body, rows, title, category) ==
    /\ last_table_specs' = specs
    /\ IF body.exc # None
       THEN /\ call' = [op |-> "add_table", raised |-> body.exc]
            /\ UNCHANGED <<lines, last_table_index, given>>
       ELSE /\ last_table_index' = Some(Len(lines))
            /\ lines' = Append(lines,
                               table_head(specs[1].headers, title, category)
                               \o body.html \o <<Tbl.TBodyClose, Tbl.TableClose>>)
            /\ call' = [op |-> "add_table", raised |-> None]
            /\ given' = rows

store_specs(specs, rows, title, category) ==
    open_table(specs, rows_html(specs, rows), rows, title, category)

add_table(headers, rows, title, category, measured_col, nominal_col, tolerance_col, lower_spec_col, upper_spec_col) ==
    /\ store_specs(Some(table_specs(headers, measured_col, nominal_col,
                                    tolerance_col, lower_spec_col,
                                    upper_spec_col)),
                   rows, title, category)
    /\ opened' = Some([headers        |-> headers,
                       measured_col   |-> measured_col,
                       nominal_col    |-> nominal_col,
                       tolerance_col  |-> tolerance_col,
                       lower_spec_col |-> lower_spec_col,
                       upper_spec_col |-> upper_spec_col])
    /\ UNCHANGED <<header_items, section_counter, current_section_title,
                   collapsible>>

\* a row without a table dropped in silence
no_table_ignored ==
    /\ call' = [op |-> "add_table_row", raised |-> None]
    /\ UNCHANGED <<lines, given>>

\* raise ValueError("No table exists. ...")
no_table_error ==
    /\ call' = [op |-> "add_table_row", raised |-> Some("ValueError")]
    /\ UNCHANGED <<lines, given>>

\* the new row put after the closing body marker
splice_after(table_html, insert_pos, new_row_html) ==
    SubSeq(table_html, 1, insert_pos + 1) \o new_row_html
    \o SubSeq(table_html, insert_pos + 2, Len(table_html))

\* table_html[:insert_pos] + new_row_html + table_html[insert_pos:]
splice(table_html, insert_pos, new_row_html) ==
    SubSeq(table_html, 1, insert_pos) \o new_row_html
    \o SubSeq(table_html, insert_pos + 1, Len(table_html))

\* add_table_row once the table block and the new row are at hand
insert_row(row, table_html, insert_pos, new_row_html) ==
    IF insert_pos = -1
    THEN /\ call' = [op |-> "add_table_row", raised |-> Some("ValueError")]
         /\ UNCHANGED <<lines, given>>
    ELSE IF new_row_html.exc # None
    THEN /\ call' = [op |-> "add_table_row", raised |-> new_row_html.exc]
         /\ UNCHANGED <<lines, given>>
    ELSE /\ lines' = [lines EXCEPT ![last_table_index[1] + 1] =
                         splice(table_html, insert_pos, new_row_html.html)]
         /\ call' = [op |-> "add_table_row", raised |-> None]
         /\ given' = Append(given, row)

add_table_row(row) ==
    /\ IF last_table_index = None
       THEN no_table_error
       ELSE IF last_table_index[1] >= Len(lines)
       THEN /\ call' = [op |-> "add_table_row", raised |-> Some("IndexError")]
            /\ UNCHANGED <<lines, given>>
       ELSE insert_row(row, lines[last_table_index[1] + 1],
                       rfind(lines[last_table_index[1] + 1], Tbl.TBodyClose),
                       process_row_with_specs(last_table_specs, row))
    /\ UNCHANGED <<last_table_index, last_table_specs, header_items,
                   section_counter, current_section_title, collapsible,
                   opened>>

Ln ==
    [LineOpen  |-> "    <div class=\"line\">",
     LineClose |-> "</div>\n",
     LineBreak |-> "    <div class=\"line-break\"></div>\n"]
\* the line put before the blocks there are
add_line_first(text) ==
    /\ lines' = <<<<Ln.LineOpen>> \o text \o <<Ln.LineClose>>>> \o lines
    /\ call' = [op |-> "add_line", raised |-> None]
    /\ UNCHANGED <<last_table_index, last_table_specs, header_items,
                   section_counter, current_section_title, collapsible,
                   given, opened>>

add_line(text) ==
    /\ lines' = Append(lines, <<Ln.LineOpen>> \o text \o <<Ln.LineClose>>)
    /\ call' = [op |-> "add_line", raised |-> None]
    /\ UNCHANGED <<last_table_index, last_table_specs, header_items,
                   section_counter, current_section_title, collapsible,
                   given, opened>>

add_line_break ==
    /\ lines' = Append(lines, <<Ln.LineBreak>>)
    /\ call' = [op |-> "add_line_break", raised |-> None]
    /\ UNCHANGED <<last_table_index, last_table_specs, header_items,
                   section_counter, current_section_title, collapsible,
                   given, opened>>

(***************************************************************************)
(* Figures.  plot_data is a str, the base64 text of the image; bytes, which *)
(* add_plot encodes first, are not among the inputs.                       *)
(***************************************************************************)
Fig ==
    [FigureOpen  |-> "    <div class=\"figure\">\n",
     ImgOpen     |-> "        <img src=\"data:image/",
     ImgLight    |-> "        <img class=\"figure-light\" src=\"data:image/",
     ImgDark     |-> "        <img class=\"figure-dark\" src=\"data:image/",
     Base64      |-> ";base64,",
     ImgClose    |-> "\" alt=\"Plot\">\n",
     TitleOpen   |-> "        <div class=\"figure-title\">",
     TitleClose  |-> "</div>\n",
     FigureClose |-> "    </div>\n"]
\* if title: the figure-title element; None and "" are falsy
figure_title(title) ==
    IF title # None /\ title[1] # <<>>
    THEN <<Fig.TitleOpen>> \o title[1] \o <<Fig.TitleClose>> ELSE <<>>

add_plot(plot_data, title, format) ==
    /\ lines' = Append(lines,
                       <<Fig.FigureOpen, Fig.ImgOpen, format, Fig.Base64>>
                       \o plot_data \o <<Fig.ImgClose>>
                       \o figure_title(title) \o <<Fig.FigureClose>>)
    /\ call' = [op |-> "add_plot", raised |-> None]
    /\ UNCHANGED <<last_table_index, last_table_specs, header_items,
                   section_counter, current_section_title, collapsible,
                   given, opened>>

add_dual_plot(light_plot_data, dark_plot_data, title, format) ==
    /\ lines' = Append(lines,
                       <<Fig.FigureOpen, Fig.ImgLight, format, Fig.Base64>>
                       \o light_plot_data
                       \o <<Fig.ImgClose, Fig.ImgDark, format, Fig.Base64>>
                       \o dark_plot_data \o <<Fig.ImgClose>>
                       \o figure_title(title) \o <<Fig.FigureClose>>)
    /\ call' = [op |-> "add_dual_plot", raised |-> None]
    /\ UNCHANGED <<last_table_index, last_table_specs, header_items,
                   section_counter, current_section_title, collapsible,
                   given, opened>>

(***************************************************************************)
(* The banner and the document.                                            *)
(***************************************************************************)
RECURSIVE replace_atom(_, _, _)
\* line.replace(atom, rep) and re.sub of a literal: every occurrence
replace_atom(text, atom, rep) ==
    IF text = <<>> THEN <<>>
    ELSE (IF Head(text) = atom THEN rep ELSE <<Head(text)>>)
         \o replace_atom(Tail(text), atom, rep)

add_header_item(title, value) ==
    /\ header_items' = Append(header_items, <<title, value>>)
    /\ call' = [op |-> "add_header_item", raised |-> None]
    /\ UNCHANGED <<lines, last_table_index, last_table_specs,
                   section_counter, current_section_title, collapsible,
                   given, opened>>

\* info is a dict: its (title, value) pairs in insertion order
add_header(info) ==
    /\ header_items' = header_items \o info
    /\ call' = [op |-> "add_header", raised |-> None]
    /\ UNCHANGED <<lines, last_table_index, last_table_specs,
                   section_counter, current_section_title, collapsible,
                   given, opened>>

RECURSIVE build_banner_items(_)
build_banner_items(items) ==
    IF items = <<>> THEN <<>>
    ELSE <<Page.ItemOpen>> \o Head(items)[1] \o <<Page.ItemMid>>
         \o Head(items)[2] \o <<Page.ItemClose>>
         \o build_banner_items(Tail(items))

RECURSIVE join(_)
\* ''.join(ls)
join(ls) == IF ls = <<>> THEN <<>> ELSE Head(ls) \o join(Tail(ls))

\* the blocks and the footer, the placeholder left as it is
document_plain(ls, items) == join(ls) \o <<Page.Footer>>

\* the document finalize returns for the blocks ls and the banner items
document(ls, items) ==
    replace_atom(join(ls), Page.BannerPlaceholder, build_banner_items(items))
    \o <<Page.Footer>>

\* the footer appended to the blocks kept by the builder
finalize_appending ==
    /\ call' = [op |-> "finalize", raised |-> None,
                result |-> document(lines, header_items)]
    /\ lines' = Append(lines, <<Page.Footer>>)
    /\ UNCHANGED <<last_table_index, last_table_specs, header_items,
                   section_counter, current_section_title, collapsible,
                   given, opened>>

finalize ==
    /\ call' = [op |-> "finalize", raised |-> None,
                result |-> document(lines, header_items)]
    /\ UNCHANGED <<lines, last_table_index, last_table_specs, header_items,
                   section_counter, current_section_title, collapsible,
                   given, opened>>

(***************************************************************************)
(* Sections.  Markup literals of start_section and end_section; a number   *)
(* in the markup is the sequence of its digits.                            *)
(***************************************************************************)
Sec ==
    [SectionOpen       |-> "<div class=\"section\">\n",
     TitleDivId        |-> "    <div id=\"",
     TitleDiv          |-> "    <div ",
     SectionIdPrefix   |-> "section-",
     TitleIdSuffix     |-> "-title\" ",
     SectionTitleClass |-> "class=\"section-title",
     CollapsibleClass  |-> " collapsible",
     CollapsedClass    |-> " collapsed",
     Quote             |-> "\"",
     OnclickOpen       |-> " onclick=\"toggleSection('",
     OnclickClose      |-> "')\"",
     BadgeOpen         |-> "<span class=\"section-status section-status-",
     BadgeClose        |-> "\"></span>",
     ProgressOpen      |-> "<div class=\"section-progress",
     QuoteTagEnd       |-> "\">",
     BarIdOpen         |-> "<div id=\"",
     BarClassOpen      |-> "-progress\" class=\"section-progress-bar",
     Animated          |-> " animated",
     Complete          |-> " complete",
     StyleWidth        |-> "\" style=\"width: ",
     PercentClose      |-> "%\"",
     BarClose          |-> "></div></div>",
     TitleClose        |-> "</div>\n",
     ContentIdSuffix   |-> "-content\" class=\"section-content",
     ContentTagEnd     |-> "\">\n",
     ContentClose      |-> "    </div>\n",
     SectionClose      |-> "</div>\n"]
Statuses == {"running", "pass", "fail", "warning", "data", "default"}

RECURSIVE Str(_)
\* str(n) for n >= 0
Str(n) == IF n < 10 THEN <<Digits[n + 1]>>
          ELSE Str(n \div 10) \o <<Digits[(n % 10) + 1]>>

\* the characters a caller's text is made of, apart from digits and signs
Letters == {"N", "A", "/", "P", "Q", "x"}

\* atoms matched by \w (one or more word characters, nothing else)
IsWord(a) == IsDigit(a) \/ a \in Statuses \/ a \in (Letters \ {"/"})

\* atoms without a double quote, as [^"] takes them
NoQuote(a) == IsWord(a) \/ a \in {Sec.Animated, Sec.Complete, Sec.CollapsibleClass,
                                  Sec.CollapsedClass, Tbl.CategoryPrefix,
                                  Sec.SectionIdPrefix, "/", ".", "-", "+"}

\* atoms whose first character is a double quote
QuoteFirst(a) == a \in {Sec.Quote, Sec.StyleWidth, Sec.BadgeClose, Sec.QuoteTagEnd,
                        Sec.ContentTagEnd, Tbl.THeadOpen}

\* atoms whose first character is <
LtFirst(a) == a \in {Sec.BadgeOpen, Sec.ProgressOpen, Sec.BarIdOpen, Sec.TitleClose, Tbl.TdClose,
                     Tbl.ThClose, Sec.SectionOpen, Page.BannerPlaceholder, Page.HtmlHead}

RECURSIVE Run(_, _, _)
\* the length of the longest run of atoms of one class from position i on:
\* class 1 = \w, 2 = \d, 3 = [^"]
Run(text, i, class) ==
    IF i > Len(text) THEN 0
    ELSE IF \/ class = 1 /\ IsWord(text[i])
            \/ class = 2 /\ IsDigit(text[i])
            \/ class = 3 /\ NoQuote(text[i])
         THEN 1 + Run(text, i + 1, class)
         ELSE 0

At(text, i) == IF i >= 1 /\ i <= Len(text) THEN text[i] ELSE ""

\* pat in text (str.__contains__); the empty pattern is in every text
Contains(text, pat) ==
    \E i \in 1..(Len(text) - Len(pat) + 1) :
        SubSeq(text, i, i + Len(pat) - 1) = pat

\* the badge of the status before left in place
sub_badge_kept(text, i) == text

RECURSIVE sub_badge(_, _)
\* re.sub(r'<span class="section-status section-status-\w+"></span>', '', line)
sub_badge(text, i) ==
    IF i > Len(text) THEN <<>>
    ELSE LET w == Run(text, i + 1, 1) IN
         IF text[i] = Sec.BadgeOpen /\ w >= 1 /\ At(text, i + 1 + w) = Sec.BadgeClose
         THEN sub_badge(text, i + 2 + w)
         ELSE <<text[i]>> \o sub_badge(text, i + 1)

RECURSIVE sub_category(_, _)
\* re.sub(r' category-\w+', '', line)
sub_category(text, i) ==
    IF i > Len(text) THEN <<>>
    ELSE LET w == Run(text, i + 1, 1) IN
         IF text[i] = Tbl.CategoryPrefix /\ w >= 1
         THEN sub_category(text, i + 1 + w)
         ELSE <<text[i]>> \o sub_category(text, i + 1)

RECURSIVE replace_seq(_, _, _, _)
\* line.replace(pat, rep) for a pattern of several atoms
replace_seq(text, pat, rep, i) ==
    IF i > Len(text) THEN <<>>
    ELSE IF pat # <<>> /\ i + Len(pat) - 1 <= Len(text)
            /\ SubSeq(text, i, i + Len(pat) - 1) = pat
         THEN rep \o replace_seq(text, pat, rep, i + Len(pat))
         ELSE <<text[i]>> \o replace_seq(text, pat, rep, i + 1)

RECURSIVE insert_after_title(_, _, _, _)
\* line.replace(f'>{title}<', f'>{title}{badge}<')
insert_after_title(text, title, badge, i) ==
    IF i > Len(text) THEN <<>>
    ELSE LET n == Len(title) IN
         IF /\ text[i] = Tbl.TagEnd
            /\ i + n + 1 <= Len(text)
            /\ SubSeq(text, i + 1, i + n) = title
            /\ LtFirst(text[i + n + 1])
         THEN <<Tbl.TagEnd>> \o title \o badge
              \o insert_after_title(text, title, badge, i + n + 1)
         ELSE <<text[i]>> \o insert_after_title(text, title, badge, i + 1)

badge(status) == <<Sec.BadgeOpen, status, Sec.BadgeClose>>

\* the body of the loop of update_section_status for a matching line
patch_status(line, section_title, status) ==
    LET l1 == sub_badge(line, 1)
        l2 == sub_category(l1, 1)
        l3 == replace_atom(l2, Sec.SectionTitleClass,
                           <<Sec.SectionTitleClass, Tbl.CategoryPrefix, status>>)
    IN  IF Contains(l3, <<Sec.ProgressOpen>>)
        THEN replace_atom(l3, Sec.ProgressOpen, badge(status) \o <<Sec.ProgressOpen>>)
        ELSE insert_after_title(l3, section_title, badge(status), 1)

\* the length of the match of
\* <div id="section-\d+-progress" class="section-progress-bar at i, or 0
BarMatch(text, i) ==
    LET d == Run(text, i + 2, 2) IN
    IF /\ At(text, i) = Sec.BarIdOpen
       /\ At(text, i + 1) = Sec.SectionIdPrefix
       /\ d >= 1
       /\ At(text, i + 2 + d) = Sec.BarClassOpen
    THEN 3 + d ELSE 0

RECURSIVE sub_width(_, _, _)
\* re.sub(r'(<div id="section-\d+-progress" class="section-progress-bar
\*           [^"]*" style="width: )\d+(%")', f'\\g<1>{progress}\\g<2>', line)
sub_width(text, progress, i) ==
    IF i > Len(text) THEN <<>>
    ELSE LET b == BarMatch(text, i)
             q == Run(text, i + b, 3)
             w == Run(text, i + b + q + 1, 2)
         IN  IF /\ b > 0
                /\ At(text, i + b + q) = Sec.StyleWidth
                /\ w >= 1
                /\ At(text, i + b + q + 1 + w) = Sec.PercentClose
             THEN SubSeq(text, i, i + b + q) \o Str(progress)
                  \o <<Sec.PercentClose>>
                  \o sub_width(text, progress, i + b + q + 2 + w)
             ELSE <<text[i]>> \o sub_width(text, progress, i + 1)

RECURSIVE sub_complete(_, _)
\* re.sub(r'(<div id="section-\d+-progress" class="section-progress-bar)"',
\*        r'\1 complete"', line)
sub_complete(text, i) ==
    IF i > Len(text) THEN <<>>
    ELSE LET b == BarMatch(text, i) IN
         IF b > 0 /\ QuoteFirst(At(text, i + b))
         THEN SubSeq(text, i, i + b - 1) \o <<Sec.Complete>>
              \o sub_complete(text, i + b)
         ELSE <<text[i]>> \o sub_complete(text, i + 1)

\* progress = max(0, progress)
clamp_floor(progress) == IF progress > 0 THEN progress ELSE 0

\* progress = max(0, min(100, progress))
clamp(progress) ==
    LET m == IF progress < 100 THEN progress ELSE 100
    IN  IF m > 0 THEN m ELSE 0

\* the width alone, whatever the progress
patch_progress_width(line, progress) == sub_width(line, progress, 1)

\* the body of the loop of update_section_progress for a matching line
patch_progress(line, progress) ==
    LET l1 == sub_width(line, progress, 1) IN
    IF progress >= 100
    THEN replace_seq(sub_complete(replace_atom(l1, Sec.Animated, <<>>), 1),
                     <<Sec.ProgressOpen, Sec.QuoteTagEnd>>,
                     <<Sec.ProgressOpen, Sec.Complete, Sec.QuoteTagEnd>>, 1)
    ELSE l1

\* the first line with class="section-title, whatever its text
find_section_any(ls, section_title, i) ==
    [exc |-> None,
     i   |-> IF \E j \in 1..Len(ls) : Contains(ls[j], <<Sec.SectionTitleClass>>)
             THEN CHOOSE j \in 1..Len(ls) :
                     /\ Contains(ls[j], <<Sec.SectionTitleClass>>)
                     /\ \A k \in 1..(j - 1) :
                           ~Contains(ls[k], <<Sec.SectionTitleClass>>)
             ELSE 0]

\* the last line with class="section-title and section_title in it
find_section_last(ls, section_title, i) ==
    [exc |-> None,
     i   |-> IF \E j \in 1..Len(ls) :
                   /\ Contains(ls[j], <<Sec.SectionTitleClass>>)
                   /\ Contains(ls[j], section_title[1])
             THEN CHOOSE j \in 1..Len(ls) :
                     /\ Contains(ls[j], <<Sec.SectionTitleClass>>)
                     /\ Contains(ls[j], section_title[1])
                     /\ \A k \in (j + 1)..Len(ls) :
                           ~(/\ Contains(ls[k], <<Sec.SectionTitleClass>>)
                             /\ Contains(ls[k], section_title[1]))
             ELSE 0]

RECURSIVE find_section(_, _, _)
\* the scan of both update methods: the position (1-based) of the first line
\* with class="section-title and section_title in it, 0 when there is none;
\* section_title = None is a TypeError at the first line with the class
find_section(ls, section_title, i) ==
    IF i > Len(ls) THEN [exc |-> None, i |-> 0]
    ELSE IF Contains(ls[i], <<Sec.SectionTitleClass>>)
         THEN IF section_title = None THEN Raise("TypeError")
              ELSE IF Contains(ls[i], section_title[1])
                   THEN [exc |-> None, i |-> i]
                   ELSE find_section(ls, section_title, i + 1)
         ELSE find_section(ls, section_title, i + 1)

\* self.lines after update_section_status, or the exception
update_status_lines(ls, section_title, status) ==
    LET f == find_section(ls, section_title, 1) IN
    IF f.exc # None THEN f
    ELSE [exc |-> None,
          lines |-> IF f.i = 0 THEN ls
                    ELSE [ls EXCEPT ![f.i] =
                             patch_status(ls[f.i], section_title[1], status)]]

\* self.lines after update_section_progress, or the exception
update_progress_lines(ls, section_title, progress) ==
    LET f == find_section(ls, section_title, 1) IN
    IF f.exc # None THEN f
    ELSE [exc |-> None,
          lines |-> IF f.i = 0 THEN ls
                    ELSE [ls EXCEPT ![f.i] =
                             patch_progress(ls[f.i], clamp(progress))]]

\* the id of the first section for every section
section_id_first == <<Sec.SectionIdPrefix, "0">>

section_id == <<Sec.SectionIdPrefix>> \o Str(section_counter)

start_section(title, collapsed) ==
    LET status_badge == badge("running")
        progress_bar == <<Sec.ProgressOpen, Sec.QuoteTagEnd, Sec.BarIdOpen>>
                        \o section_id
                        \o <<Sec.BarClassOpen, Sec.Animated, Sec.StyleWidth, "0",
                             Sec.PercentClose, Sec.BarClose>>
        collapsed_class == IF collapsed THEN <<Sec.CollapsedClass>> ELSE <<>>
        section_html ==
            IF collapsible
            THEN <<Sec.SectionOpen, Sec.TitleDivId>> \o section_id
                 \o <<Sec.TitleIdSuffix, Sec.SectionTitleClass, Tbl.CategoryPrefix,
                      "running", Sec.CollapsibleClass>>
                 \o collapsed_class
                 \o <<Sec.Quote, Sec.OnclickOpen>> \o section_id
                 \o <<Sec.OnclickClose, Tbl.TagEnd>>
                 \o title \o status_badge \o progress_bar
                 \o <<Sec.TitleClose, Sec.TitleDivId>> \o section_id
                 \o <<Sec.ContentIdSuffix>> \o collapsed_class
                 \o <<Sec.ContentTagEnd>>
            ELSE <<Sec.SectionOpen, Sec.TitleDiv, Sec.SectionTitleClass, Tbl.CategoryPrefix,
                   "running", Sec.QuoteTagEnd>>
                 \o title \o status_badge \o progress_bar \o <<Sec.TitleClose>>
    IN  /\ current_section_title' = Some(title)
        /\ section_counter' = section_counter + 1
        /\ lines' = Append(lines, section_html)
        /\ call' = [op |-> "start_section", raised |-> None,
                    title |-> title, collapsed |-> collapsed]
        /\ UNCHANGED <<last_table_index, last_table_specs, header_items,
                       collapsible, given, opened>>

\* the section container closed, the content wrapper never
closing_lines_section == <<<<Sec.SectionClose>>>>

\* the blocks end_section appends: the content wrapper closed when the
\* report is collapsible, then the section container closed
closing_lines ==
    (IF collapsible THEN <<<<Sec.ContentClose>>>> ELSE <<>>)
    \o <<<<Sec.SectionClose>>>>

\* one short of complete
final_progress_short == clamp(100) - 1

\* the progress end_section sets with a status
final_progress == 100

end_section(status) ==
    LET p == IF status = None THEN [exc |-> None, lines |-> lines]
             ELSE update_progress_lines(lines, current_section_title,
                                        final_progress)
        u == IF status = None \/ p.exc # None THEN p
             ELSE update_status_lines(p.lines, current_section_title,
                                      status[1])
    IN  /\ IF p.exc # None
           THEN /\ call' = [op |-> "end_section", raised |-> p.exc,
                            status |-> status]
                /\ UNCHANGED <<lines, current_section_title>>
           ELSE IF u.exc # None
           THEN /\ call' = [op |-> "end_section", raised |-> u.exc,
                            status |-> status]
                /\ lines' = p.lines
                /\ UNCHANGED current_section_title
           ELSE /\ lines' = u.lines \o closing_lines
                /\ current_section_title' = None
                /\ call' = [op |-> "end_section", raised |-> None,
                            status |-> status]
        /\ UNCHANGED <<last_table_index, last_table_specs, header_items,
                       section_counter, collapsible, given, opened>>

update_section_status(section_title, status) ==
    LET u == update_status_lines(lines, Some(section_title), status)
    IN  /\ lines' = u.lines
        /\ call' = [op |-> "update_section_status", raised |-> None,
                    title |-> section_title, status |-> status]
        /\ UNCHANGED <<last_table_index, last_table_specs, header_items,
                       section_counter, current_section_title, collapsible,
                       given, opened>>

update_section_progress(section_title, progress) ==
    LET u == update_progress_lines(lines, Some(section_title), progress)
    IN  /\ lines' = u.lines
        /\ call' = [op |-> "update_section_progress", raised |-> None,
                    title |-> section_title, progress |-> progress]
        /\ UNCHANGED <<last_table_index, last_table_specs, header_items,
                       section_counter, current_section_title, collapsible,
                       given, opened>>

(***************************************************************************)
(* The calls of a caller.  Spec: the operations that build the body, on    *)
(* few inputs; a report holds at most MaxLines blocks and a table takes at *)
(* most MaxRows rows.                                                      *)
(***************************************************************************)
MaxLines == 3
MaxRows  == 2

Titles     == {<<"P">>}
LineTexts  == {<<"x">>}
Progresses == {50, 150}

\* (headers, title, category, measured, nominal, tolerance, lower, upper)
Tables ==
    { <<<<"A", "B">>, None, None, None, None, None, None, None>>,
      <<<<"A", "B", "M">>, Some(<<"P">>), Some("fail"),
        Some("M"), Some("A"), Some("B"), None, None>>,
      <<<<"M", "A", "B">>, None, None,
        Some("M"), None, None, Some("A"), Some("B")>> }

Rows == { <<<<"x">>, <<"N", "/", "A">>>>,
          <<<<"5", ".", "2", "6">>, <<"5", ".", "0", "0">>,
            <<"5", ".", "2", "5">>>> }

InitialRows(rows) == {<<>>} \cup {<<r>> : r \in rows}

AddTable ==
    /\ Len(lines) < MaxLines
    /\ \E t \in Tables, rows \in InitialRows(Rows) :
          add_table(t[1], rows, t[2], t[3], t[4], t[5], t[6], t[7], t[8])

AddTableRow ==
    /\ Len(given) < MaxRows
    /\ \E row \in Rows : add_table_row(row)

StartSection ==
    /\ Len(lines) < MaxLines
    /\ \E title \in Titles, collapsed \in BOOLEAN :
          start_section(title, collapsed)

EndSection ==
    /\ Len(lines) < MaxLines
    /\ \E status \in {None, Some("pass")} : end_section(status)

UpdateSectionStatus ==
    \E title \in Titles, status \in {"fail"} :
        update_section_status(title, status)

UpdateSectionProgress ==
    \E title \in Titles, progress \in Progresses :
        update_section_progress(title, progress)

AddLine ==
    /\ Len(lines) < MaxLines
    /\ \E text \in LineTexts : add_line(text)

AddLineBreak ==
    /\ Len(lines) < MaxLines
    /\ add_line_break

AddPlot ==
    /\ Len(lines) < MaxLines
    /\ \E title \in {None, Some(<<"P">>)} : add_plot(<<"x">>, title, "png")

AddDualPlot ==
    /\ Len(lines) < MaxLines
    /\ add_dual_plot(<<"x">>, <<"Q">>, Some(<<>>), "png")

Next ==
    \/ AddTable
    \/ AddTableRow
    \/ StartSection
    \/ EndSection
    \/ UpdateSectionStatus
    \/ UpdateSectionProgress
    \/ AddLine
    \/ AddLineBreak
    \/ AddPlot
    \/ AddDualPlot

Spec == Init /\ [][Next]_vars

(***************************************************************************)
(* EvalSpec: a report of one table, opened under each configuration of     *)
(* the spec columns and fed rows of every kind, MaxEvalRows of them.       *)
(***************************************************************************)
MaxEvalRows == 1

EvalHeaders == <<"M", "A", "B", "C">>

\* (measured, nominal, tolerance, lower, upper); "Z" is no header
EvalConfigs ==
    { <<Some("M"), Some("A"), Some("B"), None, None>>,
      <<Some("M"), None, None, Some("A"), Some("B")>>,
      <<Some("M"), Some("A"), Some("B"), Some("C"), Some("C")>>,
      <<Some("M"), None, None, None, None>>,
      <<Some("M"), Some("A"), Some(""), Some("A"), Some("B")>>,
      <<Some("M"), Some("A"), None, None, Some("B")>>,
      <<Some("M"), Some("A"), Some("Z"), None, None>>,
      <<Some("M"), None, None, Some("Z"), Some("B")>>,
      <<None, Some("A"), Some("B"), None, None>>,
      <<Some(""), Some("A"), Some("B"), None, None>>,
      <<Some("Z"), Some("A"), Some("B"), None, None>>,
      <<Some("B"), None, None, Some("M"), Some("A")>> }

NA == <<"N", "/", "A">>

EvalRows ==
    { <<<<"5", ".", "2", "5">>, <<"5", ".", "0", "0">>, <<"0", ".", "2", "5">>>>,
      <<<<"5", ".", "2", "6">>, <<"5", ".", "0", "0">>, <<"0", ".", "2", "5">>>>,
      <<<<"4", ".", "7", "5">>, <<"5", ".", "0", "0">>, <<"0", ".", "2", "5">>>>,
      <<<<"4", ".", "7", "4">>, <<"5", ".", "0", "0">>, <<"0", ".", "2", "5">>>>,
      <<<<"0", ".", "8">>, <<"0", ".", "7">>, <<"0", ".", "1">>>>,
      <<<<"0", ".", "9", "0">>, <<"0", ".", "9", "0">>, <<"1", ".", "1", "0">>>>,
      <<<<"0", ".", "8", "9">>, <<"0", ".", "9", "0">>, <<"1", ".", "1", "0">>>>,
      <<<<"1", ".", "1", "0">>, <<"0", ".", "9", "0">>, <<"1", ".", "1", "0">>>>,
      <<<<"1", ".", "1", "1">>, <<"0", ".", "9", "0">>, <<"1", ".", "1", "0">>>>,
      <<<<"-", "0", ".", "1">>, <<"-", "0", ".", "1">>, <<"0", ".", "3">>>>,
      <<NA, <<"5", ".", "0", "0">>, <<"0", ".", "2", "5">>>>,
      <<<<"5", ".", "2", "5">>, NA, <<"0", ".", "2", "5">>>>,
      <<<<"5", ".", "2", "5">>, <<"5", ".", "0", "0">>, NA>>,
      <<>>,
      <<<<"5", ".", "2", "5">>>>,
      <<<<"5", ".", "2", "5">>, <<"5", ".", "0", "0">>>>,
      <<<<"5", ".", "2", "5">>, <<"5", ".", "0", "0">>, <<"0", ".", "2", "5">>,
        <<"9", ".", "9", "9">>>>,
      <<<<"5", ".", "2", "6">>, <<"5", ".", "0", "0">>, <<"0", ".", "2", "5">>,
        <<"5", ".", "2", "6">>>> }

OpenTable ==
    /\ opened = None
    /\ \E c \in EvalConfigs, rows \in InitialRows(EvalRows) :
          add_table(EvalHeaders, rows, None, None, c[1], c[2], c[3], c[4], c[5])

AppendRow ==
    /\ Len(given) < MaxEvalRows
    /\ \E row \in EvalRows : add_table_row(row)

EvalNext == OpenTable \/ AppendRow

EvalSpec == Init /\ [][EvalNext]_vars

(***************************************************************************)
(* SectionSpec: a report of sections alone, MaxSections of them, opened    *)
(* under titles one of which contains the other, and patched under titles  *)
(* that are in a section's title, in no block, or in the markup only.      *)
(***************************************************************************)
MaxSections == 2

SectionTitles == {<<"P">>, <<"P", "Q">>}

\* "x" is in no block, "section-0" in the markup of a block
PatchTitles == {<<"P">>, <<"Q">>, <<"x">>, <<Sec.SectionIdPrefix, "0">>}

\* (section_title, status); the empty title is in every block
StatusCalls == (PatchTitles \X {"pass"}) \cup {<< <<>>, "pass" >>}

\* (section_title, progress)
ProgressCalls ==
    ({<<"P">>} \X {-10, 50, 150}) \cup ((PatchTitles \ {<<"P">>}) \X {150})

OpenSection ==
    /\ section_counter < MaxSections
    /\ \E title \in SectionTitles : start_section(title, FALSE)

\* end_section is paired with start_section
CloseSection ==
    /\ current_section_title # None
    /\ \E status \in {None, Some("fail")} : end_section(status)

PatchStatus == \E c \in StatusCalls : update_section_status(c[1], c[2])

PatchProgress == \E c \in ProgressCalls : update_section_progress(c[1], c[2])

SectionNext == OpenSection \/ CloseSection \/ PatchStatus \/ PatchProgress

SectionSpec == Init /\ [][SectionNext]_vars

(***************************************************************************)
(* BannerSpec: banner items, MaxItems of them, added one by one and by     *)
(* dictionary before and after lines of the body, and the document         *)
(* finalize returns at any moment.                                         *)
(***************************************************************************)
MaxItems == 3

\* (title, value)
Items == {<<<<"A">>, <<"x">>>>, <<<<"P">>, <<"5">>>>}

\* dictionaries, as the sequences of their items
Infos == {<<<<<<"Q">>, <<"x">>>>, <<<<"N">>, <<"5">>>>>>}

AddHeaderItem ==
    /\ Len(header_items) < MaxItems
    /\ \E item \in Items : add_header_item(item[1], item[2])

AddHeader ==
    \E info \in Infos :
        /\ Len(header_items) + Len(info) <= MaxItems
        /\ add_header(info)

Finalize == finalize

BannerNext ==
    \/ AddHeaderItem
    \/ AddHeader
    \/ AddLine
    \/ AddLineBreak
    \/ Finalize

BannerSpec == Init /\ [][BannerNext]_vars

(***************************************************************************)
(* Sections opened and closed in any order, with titles that hold words of *)
(* the markup: a status name, the animation class, a category class.       *)
(***************************************************************************)
MaxOpened == 2
MaxReport == 4

MarkupTitles == {<<"running">>, <<"P", Sec.Animated>>,
                 <<"P", Tbl.CategoryPrefix, "x">>}

\* (title, progress)
ProgressTitles == {<< <<"P", Sec.Animated>>, 150 >>, << <<"running">>, 50 >>}

BeginSection ==
    /\ section_counter < MaxOpened
    /\ \E title \in MarkupTitles : start_section(title, FALSE)

\* end_section whether a section is open or not
FinishSection ==
    /\ Len(lines) < MaxReport
    /\ \E status \in {None, Some("pass")} : end_section(status)

SetStatus ==
    \E title \in MarkupTitles : update_section_status(title, "pass")

SetProgress ==
    \E c \in ProgressTitles : update_section_progress(c[1], c[2])

TitleNext == BeginSection \/ FinishSection \/ SetStatus \/ SetProgress

TitleSpec == Init /\ [][TitleNext]_vars

(***************************************************************************)
(* Reading a report back: the rows of a table block, the cells of a row,   *)
(* the marker and the text of a cell.                                      *)
(***************************************************************************)
IsTable(block) == \E i \in 1..Len(block) : block[i] = Tbl.TableOpen

Places(text, atom) == {i \in 1..Len(text) : text[i] = atom}

\* the k-th smallest element of S
Nth(S, k) == CHOOSE x \in S : Cardinality({y \in S : y < x}) = k - 1

Greatest(S) == CHOOSE x \in S : \A y \in S : y <= x

\* the first place of atom from i on
Upto(text, i, atom) ==
    CHOOSE j \in i..Len(text) :
        text[j] = atom /\ \A m \in i..(j - 1) : text[m] # atom

From(text, i, close) == SubSeq(text, i, Upto(text, i, close))

\* the k-th piece of text that starts with open and ends at the next close
Piece(text, open, close, k) == From(text, Nth(Places(text, open), k), close)

Pieces(text, open, close) ==
    [k \in 1..Cardinality(Places(text, open)) |-> Piece(text, open, close, k)]

BodyRows(block) == Pieces(block, Tbl.TrOpen, Tbl.TrClose)

HeadersOf(block) ==
    [k \in 1..Cardinality(Places(block, Tbl.ThOpen)) |->
        block[Nth(Places(block, Tbl.ThOpen), k) + 1]]

Glyphs == {Tbl.CheckGlyph, Tbl.CrossGlyph}

\* "pass" or "fail" for a cell with the class and the glyph of it, "none"
\* for a cell with neither
MarkOf(cell) ==
    IF cell[2] = Tbl.CellPass /\ cell[Len(cell) - 1] = Tbl.CheckGlyph THEN "pass"
    ELSE IF cell[2] = Tbl.CellFail /\ cell[Len(cell) - 1] = Tbl.CrossGlyph THEN "fail"
    ELSE IF cell[2] = Tbl.TagEnd /\ cell[Len(cell) - 1] \notin Glyphs THEN "none"
    ELSE "mixed"

TextOf(cell) ==
    SubSeq(cell, IF cell[2] = Tbl.TagEnd THEN 3 ELSE 4,
           Len(cell) - (IF cell[Len(cell) - 1] \in Glyphs THEN 2 ELSE 1))

CellView(cell) == [mark |-> MarkOf(cell), text |-> TextOf(cell)]

CellViews(cells) == [j \in 1..Len(cells) |-> CellView(cells[j])]

RowView(row_html) == CellViews(Pieces(row_html, Tbl.TdOpen, Tbl.TdClose))

RowViews(rows) == [k \in 1..Len(rows) |-> RowView(rows[k])]

\* the rows of the table block the current-table pointer refers to
Shown ==
    IF last_table_index = None \/ last_table_index[1] >= Len(lines) THEN <<>>
    ELSE RowViews(BodyRows(lines[last_table_index[1] + 1]))

\* every row given to the current table is in its block
Rendered == last_table_index # None /\ Len(Shown) = Len(given)

\* a row shown with every cell as given and no marker
Plain(view, row) ==
    /\ Len(view) = Len(row)
    /\ \A j \in 1..Len(row) : view[j] = [mark |-> "none", text |-> row[j]]

(***************************************************************************)
(* The columns of the table opened last, and the numbers its cells write   *)
(* down: a decimal is n / 10^f.                                            *)
(***************************************************************************)
Configured(col) == col # None /\ col[1] # ""

InHeaders(col) ==
    Configured(col)
    /\ \E i \in 1..Len(opened[1].headers) : opened[1].headers[i] = col[1]

PosOf(col) ==
    CHOOSE i \in 1..Len(opened[1].headers) :
        /\ opened[1].headers[i] = col[1]
        /\ \A j \in 1..(i - 1) : opened[1].headers[j] # col[1]

HasCell(row, col) == InHeaders(col) /\ PosOf(col) <= Len(row)

CellOf(row, col) == row[PosOf(col)]

\* the row has a cell in the column and the cell parses as a number
Number(row, col) == HasCell(row, col) /\ IsNumeral(CellOf(row, col))

Dec(s) == [n |-> (IF s[1] = "-" THEN -1 ELSE 1) * DigitsVal(Unsigned(s), 0),
           f |-> FracLen(Unsigned(s))]

DecLe(x, y) == x.n * Pow10(y.f) <= y.n * Pow10(x.f)

\* x + k * y for k = 1, -1
DecSum(x, y, k) ==
    [n |-> x.n * Pow10(y.f) + k * y.n * Pow10(x.f), f |-> x.f + y.f]

DecOf(row, col) == Dec(CellOf(row, col))

FloatOf(row, col) == float(CellOf(row, col)).v

MeasuredCol  == opened[1].measured_col
NominalCol   == opened[1].nominal_col
ToleranceCol == opened[1].tolerance_col
LowerCol     == opened[1].lower_spec_col
UpperCol     == opened[1].upper_spec_col

NominalPair == Configured(NominalCol) /\ Configured(ToleranceCol)

LimitsPair == Configured(LowerCol) /\ Configured(UpperCol)

MarkShown(k) == Shown[k][PosOf(MeasuredCol)].mark

PassIf(b) == IF b THEN "pass" ELSE "fail"

(***************************************************************************)
(* Evaluation of the measured cell (EvalSpec).                             *)
(***************************************************************************)
\* the three cells of the nominal method are numbers in row
NominalNumbers(row) ==
    /\ Number(row, MeasuredCol)
    /\ Number(row, NominalCol)
    /\ Number(row, ToleranceCol)

\* nominal - tolerance <= measured <= nominal + tolerance, on the numbers the
\* cells write down
WithinTolerance(row) ==
    /\ DecLe(DecSum(DecOf(row, NominalCol), DecOf(row, ToleranceCol), -1),
             DecOf(row, MeasuredCol))
    /\ DecLe(DecOf(row, MeasuredCol),
             DecSum(DecOf(row, NominalCol), DecOf(row, ToleranceCol), 1))

\* C1: in a table with measured, nominal and tolerance columns, the measured
\* cell of every row whose three cells are numbers is marked pass when
\* nominal - tolerance <= measured <= nominal + tolerance, both ends
\* included, and marked fail otherwise.
C1_ToleranceInclusive ==
    (Rendered /\ NominalPair) =>
        \A k \in 1..Len(given) :
            NominalNumbers(given[k]) =>
                MarkShown(k) = PassIf(WithinTolerance(given[k]))

\* nominal 0.7, tolerance 0.1, measured 0.8: within tolerance, marked fail
C1_Witness ==
    /\ Rendered /\ NominalPair
    /\ \E k \in 1..Len(given) :
          /\ NominalNumbers(given[k])
          /\ WithinTolerance(given[k])
          /\ MarkShown(k) = "fail"

\* the three cells of the limits method are numbers in row
LimitNumbers(row) ==
    /\ Number(row, MeasuredCol)
    /\ Number(row, LowerCol)
    /\ Number(row, UpperCol)

\* lower <= measured <= upper, on the numbers the cells write down
WithinLimits(row) ==
    /\ DecLe(DecOf(row, LowerCol), DecOf(row, MeasuredCol))
    /\ DecLe(DecOf(row, MeasuredCol), DecOf(row, UpperCol))

\* C2: in a table with measured, lower and upper columns and no nominal and
\* tolerance pair, the measured cell of every row whose three cells are
\* numbers is marked pass when lower <= measured <= upper, both ends
\* included, and marked fail otherwise.
C2_LimitsInclusive ==
    (Rendered /\ ~NominalPair /\ LimitsPair) =>
        \A k \in 1..Len(given) :
            LimitNumbers(given[k]) =>
                MarkShown(k) = PassIf(WithinLimits(given[k]))

\* a measured value on the lower limit is marked pass, one below it and one
\* above the upper limit are marked fail
C2_Witness ==
    /\ Rendered /\ ~NominalPair /\ LimitsPair
    /\ call.op = "add_table_row"
    /\ \E k \in 1..Len(given) :
          /\ LimitNumbers(given[k])
          /\ CellOf(given[k], MeasuredCol) = CellOf(given[k], LowerCol)
          /\ MarkShown(k) = "pass"

Unmarked(view) == \A j \in 1..Len(view) : view[j].mark = "none"

\* C3: in a table with a measured column and neither pair of bound columns
\* fully configured, a row whose measured cell is a number is shown without
\* evaluation: no cell of it carries a pass or a fail marker.
C3_NoMethodPlain ==
    (Rendered /\ ~NominalPair /\ ~LimitsPair) =>
        \A k \in 1..Len(given) :
            Number(given[k], MeasuredCol) => Unmarked(Shown[k])

\* a table with a measured column alone, a numeric measured cell marked fail
C3_Witness ==
    /\ Rendered /\ ~NominalPair /\ ~LimitsPair
    /\ \E k \in 1..Len(given) :
          Number(given[k], MeasuredCol) /\ MarkShown(k) = "fail"

\* a bound cell of the method in force is missing from the row, is in a
\* column the headers do not have, or is no number
BoundUnreadable(row) ==
    IF NominalPair
    THEN ~Number(row, NominalCol) \/ ~Number(row, ToleranceCol)
    ELSE LimitsPair /\ (~Number(row, LowerCol) \/ ~Number(row, UpperCol))

\* C4: a row whose measured cell is a number and one of whose bound cells
\* cannot be read is shown without evaluation: its measured cell carries
\* neither a pass nor a fail marker.
C4_BoundUnreadablePlain ==
    Rendered =>
        \A k \in 1..Len(given) :
            (Number(given[k], MeasuredCol) /\ BoundUnreadable(given[k])) =>
                MarkShown(k) = "none"

\* a numeric measured cell beside an unreadable bound cell, marked fail
C4_Witness ==
    /\ Rendered
    /\ \E k \in 1..Len(given) :
          /\ Number(given[k], MeasuredCol)
          /\ BoundUnreadable(given[k])
          /\ MarkShown(k) = "fail"

\* C5: a row is shown plainly, every cell as given and none marked, whenever
\* no measured column is configured, the measured column is not among the
\* headers, the row is too short for the measured cell, or the measured
\* cell is no number.
C5_MeasuredUnavailablePlain ==
    Rendered =>
        \A k \in 1..Len(given) :
            ~Number(given[k], MeasuredCol) => Plain(Shown[k], given[k])

\* a row with N/A in the measured column of a table with both bound columns
C5_Witness ==
    /\ Rendered /\ NominalPair
    /\ \E k \in 1..Len(given) :
          /\ HasCell(given[k], MeasuredCol)
          /\ ~IsNumeral(CellOf(given[k], MeasuredCol))
          /\ Plain(Shown[k], given[k])

\* the texts of the cells of a row shown
Texts(view) == [j \in 1..Len(view) |-> view[j].text]

\* C6: add_table never raises, add_table_row raises only when there is no
\* table, whatever the cells of the row and the spec columns are, and every
\* row handed over is in the table with its cells.
C6_NoAbort ==
    /\ call.op = "add_table" => call.raised = None
    /\ (call.op = "add_table_row" /\ call.raised # None) =>
           last_table_index = None
    /\ opened # None =>
           /\ Rendered
           /\ \A k \in 1..Len(given) : Texts(Shown[k]) = given[k] \o <<>>

\* a row too short for the measured cell went into a table with spec columns
C6_Witness ==
    /\ call = [op |-> "add_table_row", raised |-> None]
    /\ Rendered /\ NominalPair /\ InHeaders(MeasuredCol)
    /\ given[Len(given)] = <<>>

(***************************************************************************)
(* The current table (Spec).                                               *)
(***************************************************************************)
\* the step of add_table_row on block b: b2 is b with one row put in just
\* before the closing body marker at place p
RowPutIn(b, b2, p) ==
    /\ Len(BodyRows(b2)) = Len(BodyRows(b)) + 1
    /\ \A k \in 1..Len(BodyRows(b)) : BodyRows(b2)[k] = BodyRows(b)[k]
    /\ SubSeq(b2, 1, p - 1) = SubSeq(b, 1, p - 1)
    /\ SubSeq(b2, p + Len(b2) - Len(b), Len(b2)) = SubSeq(b, p, Len(b))
    /\ SubSeq(b2, p, p + Len(b2) - Len(b) - 1)
           = BodyRows(b2)[Len(BodyRows(b2))]

TableFrame ==
    /\ Len(lines') = Len(lines)
    /\ last_table_index' = last_table_index
    /\ \A j \in 1..Len(lines) :
          j # last_table_index[1] + 1 => lines'[j] = lines[j]
    /\ RowPutIn(lines[last_table_index[1] + 1],
                lines'[last_table_index[1] + 1],
                Greatest(Places(lines[last_table_index[1] + 1], Tbl.TBodyClose)))

\* C7: add_table_row with a current table adds exactly one row to the block
\* of that table, after the rows it has and just before the closing body
\* marker, and leaves those rows, every other block, the number of blocks
\* and the current-table pointer as they were.
C7_RowFrame ==
    [][(call'.op = "add_table_row" /\ last_table_index # None)
          => TableFrame]_vars

\* a second row added to a table that another block follows
C7_Witness ==
    /\ call = [op |-> "add_table_row", raised |-> None]
    /\ last_table_index # None
    /\ last_table_index[1] + 1 < Len(lines)
    /\ Len(given) = 2

\* C8: add_table_row before any add_table raises ValueError and leaves the
\* blocks, the current table, the current spec and the current section as
\* they were.
C8_NoActiveTable ==
    [][(call'.op = "add_table_row" /\ opened = None) =>
          /\ call'.raised = Some("ValueError")
          /\ UNCHANGED <<lines, last_table_index, last_table_specs,
                         current_section_title>>]_vars

\* the error raised inside an open section of a report without a table
C8_Witness ==
    /\ call = [op |-> "add_table_row", raised |-> Some("ValueError")]
    /\ opened = None
    /\ current_section_title # None

\* the pointer and the spec are those of the table opened last, whose block
\* is the last table of the report and shows the rows given to it as its
\* own headers and spec columns evaluate them
NewestIsCurrent ==
    opened # None =>
        /\ last_table_specs = opened
        /\ last_table_index # None
        /\ last_table_index[1] < Len(lines)
        /\ IsTable(lines[last_table_index[1] + 1])
        /\ \A j \in (last_table_index[1] + 2)..Len(lines) : ~IsTable(lines[j])
        /\ HeadersOf(lines[last_table_index[1] + 1]) = opened[1].headers
        /\ Len(BodyRows(lines[last_table_index[1] + 1])) = Len(given)
        /\ \A k \in 1..Len(given) :
              BodyRows(lines[last_table_index[1] + 1])[k]
                  = process_row_with_specs(opened, given[k]).html

\* a table block other than the current one stays as it is
OlderTablesKept ==
    \A j \in 1..Len(lines) :
        (IsTable(lines[j]) /\ last_table_index' # Some(j - 1)) =>
            (j <= Len(lines') /\ lines'[j] = lines[j])

\* C9: the current-table pointer and the current spec always refer to the
\* table opened last: its rows, initial and added, are evaluated with its
\* own headers and spec columns and nothing of the table before, and the
\* blocks of earlier tables are never modified again.
C9_NewestTable == []NewestIsCurrent /\ [][OlderTablesKept]_vars

\* a row added to the second of two tables with different headers
C9_Witness ==
    /\ call = [op |-> "add_table_row", raised |-> None]
    /\ Len(lines) = 3
    /\ IsTable(lines[2]) /\ IsTable(lines[3])
    /\ last_table_index = Some(2)
    /\ HeadersOf(lines[2]) # HeadersOf(lines[3])
    /\ Len(BodyRows(lines[2])) = 1 /\ Len(given) = 2

(***************************************************************************)
(* Precedence of the two methods (EvalSpec).                               *)
(***************************************************************************)
\* the nominal rule as the code computes it, in binary64
NominalRule(row) ==
    /\ Number(row, NominalCol)
    /\ Number(row, ToleranceCol)
    /\ FLe(FSub(FloatOf(row, NominalCol), FloatOf(row, ToleranceCol)),
           FloatOf(row, MeasuredCol))
    /\ FLe(FloatOf(row, MeasuredCol),
           FAdd(FloatOf(row, NominalCol), FloatOf(row, ToleranceCol)))

\* C10: in a table with both pairs of bound columns, the measured cell of
\* every row is marked by the nominal rule alone, whatever the cells of the
\* lower and upper columns are.
C10_NominalFirst ==
    (Rendered /\ NominalPair /\ LimitsPair) =>
        \A k \in 1..Len(given) :
            Number(given[k], MeasuredCol) =>
                MarkShown(k) = PassIf(NominalRule(given[k]))

\* a measured value within tolerance and outside the limits, marked pass
C10_Witness ==
    /\ Rendered /\ NominalPair /\ LimitsPair
    /\ \E k \in 1..Len(given) :
          /\ NominalNumbers(given[k]) /\ LimitNumbers(given[k])
          /\ ~WithinLimits(given[k])
          /\ MarkShown(k) = "pass"

(***************************************************************************)
(* The cells of an evaluated row (EvalSpec).                               *)
(***************************************************************************)
\* the cells of the row shown that carry a pass or a fail marker
Marked(view) == {j \in 1..Len(view) : view[j].mark # "none"}

\* C11: a row whose measured cell is a number is shown with as many cells as
\* it has, in its order and with the text of each as given, and exactly one
\* of them, the one at the position of the measured column, carries a
\* marker, pass with the check glyph or fail with the cross glyph, whether
\* the row is shorter or longer than the headers.
C11_OneCellMarked ==
    Rendered =>
        \A k \in 1..Len(given) :
            Number(given[k], MeasuredCol) =>
                /\ Texts(Shown[k]) = given[k] \o <<>>
                /\ Marked(Shown[k]) = {PosOf(MeasuredCol)}
                /\ MarkShown(k) \in {"pass", "fail"}

\* a row of four cells, one more than the headers with bounds need, whose
\* third cell is the measured one and is the only one marked
C11_Witness ==
    /\ Rendered /\ InHeaders(MeasuredCol) /\ PosOf(MeasuredCol) = 3
    /\ call.op = "add_table_row"
    /\ \E k \in 1..Len(given) :
          /\ Len(given[k]) = 4
          /\ Marked(Shown[k]) = {3}
          /\ Texts(Shown[k]) = given[k] \o <<>>

(***************************************************************************)
(* Reading a section back: the title it was opened with, the statuses of   *)
(* its badge and of its category marker, the width of its progress bar.    *)
(***************************************************************************)
IsSection(block) == Contains(block, <<Sec.SectionTitleClass>>)

Sections(ls) == {j \in 1..Len(ls) : IsSection(ls[j])}

IsLetter(a) == a \in Letters

\* the characters of the title: no markup literal is one of Letters
TitleOf(block) == SelectSeq(block, IsLetter)

\* the statuses named after each occurrence of a marker, in order
Named(block, marker) ==
    [k \in 1..Cardinality(Places(block, marker)) |->
        At(block, Nth(Places(block, marker), k) + 1)]

BadgesOf(block) == Named(block, Sec.BadgeOpen)

CategoriesOf(block) == Named(block, Tbl.CategoryPrefix)

\* exactly one badge and one category marker, both of status s
ShowsStatus(block, s) == BadgesOf(block) = <<s>> /\ CategoriesOf(block) = <<s>>

\* the characters between style="width: and %", for each width in order
WidthsOf(block) ==
    [k \in 1..Cardinality(Places(block, Sec.StyleWidth)) |->
        SubSeq(block, Nth(Places(block, Sec.StyleWidth), k) + 1,
               Upto(block, Nth(Places(block, Sec.StyleWidth), k),
                    Sec.PercentClose) - 1)]

ShowsProgress(block, n) == WidthsOf(block) = <<Str(n)>>

\* the step is a call of op that raised nothing
Called(op) == call'.op = op /\ call'.raised = None

(***************************************************************************)
(* Closing a section (SectionSpec).                                        *)
(***************************************************************************)
\* the blocks after end_section() without a status
Closed(ls) ==
    ls \o (IF collapsible THEN <<<<Sec.ContentClose>>>> ELSE <<>>)
       \o <<<<Sec.SectionClose>>>>

\* the blocks after update_section_progress(T, 100),
\* update_section_status(T, s) and end_section() in turn
Chain(ls, T, s) ==
    Closed(update_status_lines(update_progress_lines(ls, T, 100).lines,
                               T, s).lines)

\* C12: with a section titled T open, end_section(status = s) leaves the
\* builder in the state update_section_progress(T, 100),
\* update_section_status(T, s) and end_section() leave it in, and finalize
\* returns the same document for both.
C12_EndSectionEquivalence ==
    [][(Called("end_section") /\ call'.status # None
           /\ current_section_title # None) =>
          /\ lines' = Chain(lines, current_section_title, call'.status[1])
          /\ current_section_title' = None
          /\ UNCHANGED <<last_table_index, last_table_specs, header_items,
                         section_counter, collapsible>>
          /\ document(lines', header_items')
                 = document(Chain(lines, current_section_title,
                                  call'.status[1]), header_items)]_vars

\* a section closed with status fail: its block shows fail and 100
C12_Witness ==
    /\ call = [op |-> "end_section", raised |-> None, status |-> Some("fail")]
    /\ \E j \in Sections(lines) :
          /\ ShowsStatus(lines[j], "fail")
          /\ ShowsProgress(lines[j], 100)
    /\ current_section_title = None

\* C13: end_section(status = s) with a section open leaves the block of the
\* section being closed, the one opened last, showing status s and progress
\* 100, whatever sections were opened before it.
C13_ClosedSectionShown ==
    [][(Called("end_section") /\ call'.status # None
           /\ current_section_title # None) =>
          \A j \in {Greatest(Sections(lines))} :
              /\ ShowsStatus(lines'[j], call'.status[1])
              /\ ShowsProgress(lines'[j], 100)]_vars

\* the second of two sections titled alike closed with status fail: the
\* first shows fail and 100, the one closed still running and 0
C13_Witness ==
    /\ call = [op |-> "end_section", raised |-> None, status |-> Some("fail")]
    /\ Cardinality(Sections(lines)) = 2
    /\ \A j \in Sections(lines) : TitleOf(lines[j]) = <<"P">>
    /\ ShowsStatus(lines[Nth(Sections(lines), 1)], "fail")
    /\ ShowsProgress(lines[Nth(Sections(lines), 1)], 100)
    /\ ShowsStatus(lines[Nth(Sections(lines), 2)], "running")
    /\ ShowsProgress(lines[Nth(Sections(lines), 2)], 0)

(***************************************************************************)
(* Patching a section (SectionSpec).                                       *)
(***************************************************************************)
\* the section blocks with T somewhere in their text
Matching(ls, T) == {j \in Sections(ls) : Contains(ls[j], T)}

\* the first of the section blocks with T in their text: a set of one block
\* or of none
First(ls, T) ==
    {j \in Matching(ls, T) : \A k \in Matching(ls, T) : j <= k}

\* the step is a call of update_section_status or update_section_progress
Patch == call'.op \in {"update_section_status", "update_section_progress"}

\* the step sets a status: the title it looks for and the status
SetsStatus ==
    \/ Called("update_section_status")
    \/ Called("end_section") /\ call'.status # None
          /\ current_section_title # None

StatusTitle ==
    IF call'.op = "end_section" THEN current_section_title[1] ELSE call'.title

StatusSet == IF call'.op = "end_section" THEN call'.status[1] ELSE call'.status

\* the block the step sets the status of: a set of one block or of none
StatusBlock == IF SetsStatus THEN First(lines, StatusTitle) ELSE {}

\* every section block has one badge and one category marker of one status
OneStatusEach ==
    \A j \in Sections(lines) : \E s \in Statuses : ShowsStatus(lines[j], s)

\* a section starts as running, the block a step sets the status of shows
\* that status, and every other block shows the status it showed
StatusKept ==
    /\ Called("start_section") =>
           \A j \in {Len(lines')} : ShowsStatus(lines'[j], "running")
    /\ \A j \in Sections(lines) :
          IF j \in StatusBlock THEN ShowsStatus(lines'[j], StatusSet)
          ELSE /\ BadgesOf(lines'[j]) = BadgesOf(lines[j])
               /\ CategoriesOf(lines'[j]) = CategoriesOf(lines[j])

\* C14: every section block always has exactly one status badge and one
\* category marker, both of the same status: running from start_section
\* on, then the status of the last update that patched the block.
C14_OneBadge == []OneStatusEach /\ [][StatusKept]_vars

\* update_section_status set to pass the block of a closed section that
\* shows progress 100
C14_Witness ==
    /\ call.op = "update_section_status" /\ call.status = "pass"
    /\ \E j \in First(lines, call.title) :
          ShowsStatus(lines[j], "pass") /\ ShowsProgress(lines[j], 100)
    /\ current_section_title = None

\* min(100, max(0, p))
Clamped(p) == IF p > 100 THEN 100 ELSE IF p < 0 THEN 0 ELSE p

\* w writes a whole number from 0 to 100 as str does
IsPercent(w) ==
    /\ w # <<>>
    /\ \A i \in 1..Len(w) : IsDigit(w[i])
    /\ DigitsVal(w, 0) <= 100
    /\ Str(DigitsVal(w, 0)) = w

\* every section block shows one width, a whole number from 0 to 100
WidthInRange ==
    \A j \in Sections(lines) :
        Len(WidthsOf(lines[j])) = 1 /\ IsPercent(WidthsOf(lines[j])[1])

\* a section starts at 0 and update_section_progress sets the block it
\* patches to the clamped progress
WidthSet ==
    /\ Called("start_section") =>
           \A j \in {Len(lines')} : ShowsProgress(lines'[j], 0)
    /\ Called("update_section_progress") =>
           \A j \in First(lines, call'.title) :
               ShowsProgress(lines'[j], Clamped(call'.progress))

\* C15: the progress a section block shows is always a whole number from 0
\* to 100: 0 when the section is opened, min(100, max(0, p)) after
\* update_section_progress(T, p) patched the block.
C15_ProgressClamped == []WidthInRange /\ [][WidthSet]_vars

\* progress -10 set on a block that was complete: it shows 0
C15_Witness ==
    /\ call.op = "update_section_progress" /\ call.progress = -10
    /\ \E j \in First(lines, call.title) :
          /\ ShowsProgress(lines[j], 0)
          /\ Places(lines[j], Sec.Complete) # {}

\* the places of the complete marker are one on the bar and one on the
\* container, and there is no animation marker
CompleteOnce(block) ==
    /\ Places(block, Sec.Animated) = {}
    /\ Cardinality(Places(block, Sec.Complete)) = 2
    /\ \E i \in Places(block, Sec.Complete) :
          At(block, i - 1) = Sec.BarClassOpen
    /\ \E i \in Places(block, Sec.Complete) :
          At(block, i - 1) = Sec.ProgressOpen

\* the blocks after update_section_progress(T, p) on the blocks ls
Again(ls, T, p) == update_progress_lines(ls, Some(T), p).lines

\* C16: the block update_section_progress(T, p) patched with p >= 100
\* shows width 100, has no animation marker and has the complete marker
\* once on the bar and once on the container, and the same call again
\* leaves every block as it is.
C16_CompleteOnce ==
    [][(Called("update_section_progress") /\ call'.progress >= 100) =>
          /\ \A j \in First(lines, call'.title) :
                ShowsProgress(lines'[j], 100) /\ CompleteOnce(lines'[j])
          /\ Again(lines', call'.title, call'.progress) = lines']_vars

\* progress 150 set on a block that was complete already, closed with
\* status fail
C16_Witness ==
    /\ call.op = "update_section_progress" /\ call.progress = 150
    /\ \E j \in First(lines, call.title) :
          CompleteOnce(lines[j]) /\ ShowsStatus(lines[j], "fail")

\* C17: update_section_status and update_section_progress with a title
\* that is in no section block raise nothing and leave the blocks, the
\* current table and the current section as they were.
C17_NoMatchNoOp ==
    [][(Patch /\ Matching(lines, call'.title) = {}) =>
          /\ call'.raised = None
          /\ UNCHANGED <<lines, last_table_index, last_table_specs,
                         header_items, section_counter,
                         current_section_title>>]_vars

\* a title that is in no block, looked for in a report with two sections
C17_Witness ==
    /\ call.op \in {"update_section_status", "update_section_progress"}
    /\ call.title = <<"x">>
    /\ Cardinality(Sections(lines)) = 2
    /\ current_section_title # None

\* C18: update_section_status and update_section_progress change no block
\* but the first of those that match the title, and keep the number of
\* blocks.
C18_FirstMatchOnly ==
    [][Patch =>
          /\ Len(lines') = Len(lines)
          /\ \A j \in (1..Len(lines)) \ First(lines, call'.title) :
                lines'[j] = lines[j]]_vars

\* two sections match the title: the first is set to pass, the second is
\* still running
C18_Witness ==
    /\ call.op = "update_section_status" /\ call.title = <<"P">>
    /\ Cardinality(Matching(lines, call.title)) = 2
    /\ ShowsStatus(lines[Nth(Matching(lines, call.title), 1)], "pass")
    /\ ShowsStatus(lines[Nth(Matching(lines, call.title), 2)], "running")

\* C19: update_section_status and update_section_progress change a section
\* block only when the title they are given is part of the title the
\* section was opened with; a title that is in the markup of the block
\* alone, or empty, changes no block.
C19_TitleMatchOnly ==
    [][Patch =>
          \A j \in Sections(lines) :
              lines'[j] # lines[j] =>
                  /\ call'.title # <<>>
                  /\ Contains(TitleOf(lines[j]), call'.title)]_vars

\* update_section_status("section-0", "pass") set a section titled P or PQ
\* to pass
C19_Witness ==
    /\ call.op = "update_section_status"
    /\ call.title = <<Sec.SectionIdPrefix, "0">>
    /\ Sections(lines) # {}
    /\ ~Contains(TitleOf(lines[Nth(Sections(lines), 1)]), call.title)
    /\ ShowsStatus(lines[Nth(Sections(lines), 1)], "pass")

(***************************************************************************)
(* The document (BannerSpec).                                              *)
(***************************************************************************)
RECURSIVE Concat(_, _)
\* the first n texts of f one after the other
Concat(f, n) == IF n = 0 THEN <<>> ELSE Concat(f, n - 1) \o f[n]

\* a banner item as it is rendered
ItemHtml(item) ==
    <<Page.ItemOpen>> \o item[1] \o <<Page.ItemMid>> \o item[2]
    \o <<Page.ItemClose>>

\* the banner items now, each once, in the order they were added
Banner ==
    Concat([i \in 1..Len(header_items) |-> ItemHtml(header_items[i])],
           Len(header_items))

\* the blocks appended after the one of the constructor, in their order
Body == Concat([i \in 1..(Len(lines) - 1) |-> lines[i + 1]], Len(lines) - 1)

\* C20: finalize returns the blocks in their order followed by the footer,
\* the banner placeholder replaced by the header items there are at the
\* moment of the call, each once and in the order they were added, also
\* those added after blocks of the body; without items the banner is empty.
C20_Document ==
    call.op = "finalize" =>
        /\ call.raised = None
        /\ call.result = <<Page.HtmlHead>> \o Banner \o <<Page.HtmlBodyOpen>>
                             \o Body \o <<Page.Footer>>

\* a document of two body blocks and three banner items, the last of them
\* not the one added first
C20_Witness ==
    /\ call.op = "finalize"
    /\ Len(lines) = 3 /\ Len(header_items) = 3
    /\ header_items[1] # header_items[3]
    /\ Cardinality(Places(call.result, Page.ItemOpen)) = 3

(***************************************************************************)
(* The sequence of blocks (Spec).                                          *)
(***************************************************************************)
\* the operations that append one block
Adders == {"start_section", "add_line", "add_line_break", "add_table",
           "add_plot", "add_dual_plot"}

\* the operations that replace a block
Replacers == {"add_table_row", "update_section_status",
              "update_section_progress"}

\* the blocks that are not after the step what they were before it
Changed == {j \in 1..Len(lines) : j > Len(lines') \/ lines'[j] # lines[j]}

\* no block is removed or moved, an adding operation appends and changes no
\* block, a replacing operation changes at most one and appends none
AppendOrReplace ==
    /\ Len(lines') >= Len(lines)
    /\ (call'.op \in Adders /\ call'.raised = None) =>
           Len(lines') = Len(lines) + 1 /\ Changed = {}
    /\ call'.op \in Replacers =>
           Len(lines') = Len(lines) /\ Cardinality(Changed) <= 1

IdsOf(block) ==
    [k \in 1..Cardinality(Places(block, Sec.SectionIdPrefix)) |->
        SubSeq(block, Nth(Places(block, Sec.SectionIdPrefix), k) + 1,
               Nth(Places(block, Sec.SectionIdPrefix), k)
               + Run(block, Nth(Places(block, Sec.SectionIdPrefix), k) + 1, 2))]

\* C22: the k-th section opened, counting from 0, has the id suffix k in
\* every id of its block (progress bar, and title, toggle and content
\* wrapper in a collapsible report), so no two section blocks share an id,
\* and the counter is the number of sections opened.
C22_SectionIds ==
    /\ section_counter = Cardinality(Sections(lines))
    /\ \A k \in 1..Cardinality(Sections(lines)) :
          \A j \in {Nth(Sections(lines), k)} :
              /\ Len(IdsOf(lines[j])) = (IF collapsible THEN 4 ELSE 1)
              /\ \A m \in 1..Len(IdsOf(lines[j])) :
                    IdsOf(lines[j])[m] = Str(k - 1)

\* two sections of a collapsible report, the second patched: its four ids
\* have the suffix 1
C22_Witness ==
    /\ collapsible /\ Cardinality(Sections(lines)) = 2
    /\ \A j \in {Nth(Sections(lines), 2)} :
          /\ IdsOf(lines[j]) = <<<<"1">>, <<"1">>, <<"1">>, <<"1">>>>
          /\ ShowsStatus(lines[j], "fail")

\* the containers a section block opens: the section, and the content
\* wrapper of a collapsible report
OpenedBy(block) ==
    Cardinality(Places(block, Sec.SectionOpen))
    + Cardinality(Places(block, Sec.ContentIdSuffix))

\* the blocks appended by the step
Appended == SubSeq(lines', Len(lines) + 1, Len(lines'))

\* C23: end_section with a section open appends the closing of the section
\* container, after the closing of the content wrapper exactly when the
\* report is collapsible, as many closings as the block of the section
\* opened containers, and leaves no section current.
C23_ClosingMatches ==
    [][(Called("end_section") /\ current_section_title # None) =>
          /\ Appended = (IF collapsible THEN <<<<Sec.ContentClose>>>>
                         ELSE <<>>) \o <<<<Sec.SectionClose>>>>
          /\ \A j \in {Greatest(Sections(lines))} :
                OpenedBy(lines'[j]) = Len(Appended)
          /\ current_section_title' = None]_vars

\* a section of a collapsible report closed: two closings after its block
C23_Witness ==
    /\ collapsible /\ call.op = "end_section" /\ call.raised = None
    /\ Cardinality(Sections(lines)) = 1
    /\ Len(lines) = 4
    /\ lines[3] = <<Sec.ContentClose>> /\ lines[4] = <<Sec.SectionClose>>
    /\ current_section_title = None

(***************************************************************************)
(* The table pointer (Spec).                                               *)
(***************************************************************************)
\* self.last_table_index is unset, or the index of a table block that holds
\* the closing body marker
PointerValid ==
    \/ last_table_index = None
    \/ /\ last_table_index[1] \in 0..(Len(lines) - 1)
       /\ IsTable(lines[last_table_index[1] + 1])
       /\ Places(lines[last_table_index[1] + 1], Tbl.TBodyClose) # {}

\* no row of the inputs fails its evaluation under the stored specification
RowsEvaluate ==
    \A row \in Rows : process_row_with_specs(last_table_specs, row).exc = None

\* C24: the table pointer is unset or the index of a table block that still
\* holds the closing body marker, before and after every step, status and
\* progress patches included; so add_table_row with a table open and a row
\* that evaluates raises nothing: neither the missing-body error nor an
\* index out of range.
C24_TablePointerValid ==
    [][/\ PointerValid /\ PointerValid'
       /\ (call'.op = "add_table_row" /\ last_table_index # None
           /\ RowsEvaluate) => call'.raised = None]_vars

\* a row added to a table after the section before it was patched
C24_Witness ==
    /\ call = [op |-> "add_table_row", raised |-> None]
    /\ Len(lines) = 3 /\ last_table_index = Some(2)
    /\ Len(given) = 2
    /\ ShowsStatus(lines[2], "fail") /\ ShowsProgress(lines[2], 100)

(***************************************************************************)
(* finalize and the state of the builder (BannerSpec).                     *)
(***************************************************************************)
\* C25: a finalize step changes no field of the builder; called right
\* after another finalize it returns the same document; called after more
\* operations it returns the document of the blocks and the banner items
\* there are then.
C25_FinalizeReadOnly ==
    [][Called("finalize") =>
          /\ UNCHANGED <<lines, header_items, last_table_index,
                         last_table_specs, current_section_title,
                         section_counter, collapsible>>
          /\ call.op = "finalize" => call'.result = call.result
          /\ Len(call'.result) = Len(Banner) + Len(Body) + 3
          /\ \A i \in 1..Len(Body) :
                call'.result[Len(Banner) + 2 + i] = Body[i]]_vars

\* a document returned by a builder of one body block and one banner item
C25_Witness ==
    /\ call.op = "finalize"
    /\ Len(lines) = 2 /\ Len(header_items) = 1
    /\ Len(call.result) = Len(ItemHtml(header_items[1])) + Len(lines[2]) + 3

(***************************************************************************)
(* Status and progress patches together (TitleSpec).                       *)
(***************************************************************************)
\* the blocks after update_section_status(T, s) then
\* update_section_progress(T, p)
StatusThenProgress(T, s, p) ==
    update_progress_lines(update_status_lines(lines, Some(T), s).lines,
                          Some(T), p).lines

\* the blocks after update_section_progress(T, p) then
\* update_section_status(T, s)
ProgressThenStatus(T, s, p) ==
    update_status_lines(update_progress_lines(lines, Some(T), p).lines,
                        Some(T), s).lines

\* how often the atom is in the block
Count(block, atom) == Cardinality(Places(block, atom))

\* a status patch keeps the widths and the animation and complete markers
\* of every block, a progress patch the badges and the category markers
Independent ==
    /\ Called("update_section_status") =>
          \A j \in Sections(lines) :
              /\ WidthsOf(lines'[j]) = WidthsOf(lines[j])
              /\ Count(lines'[j], Sec.Animated) = Count(lines[j], Sec.Animated)
              /\ Count(lines'[j], Sec.Complete) = Count(lines[j], Sec.Complete)
    /\ Called("update_section_progress") =>
          \A j \in Sections(lines) :
              /\ BadgesOf(lines'[j]) = BadgesOf(lines[j])
              /\ CategoriesOf(lines'[j]) = CategoriesOf(lines[j])

\* the two patches with the same title give the same blocks in either order
Commute ==
    \A T \in MarkupTitles, p \in {50, 150} :
        StatusThenProgress(T, "pass", p) = ProgressThenStatus(T, "pass", p)

\* C26: a status patch leaves the progress width, the animation marker and
\* the complete marker of the blocks as they were, a progress patch leaves
\* the status badge and the category marker as they were, and in every
\* state update_section_status(T, s) and update_section_progress(T, p)
\* give the same blocks in either order.
C26_PatchesCommute == [][Independent /\ Commute]_vars

\* sections "P animated" and "running" open; update_section_status(
\* "running", "pass") went to the first block, whose category marker held
\* the word, and update_section_progress("running", 50) after it to the
\* second: in the other order both go to the first
C26_Witness ==
    /\ call.op = "update_section_progress" /\ call.title = <<"running">>
    /\ Cardinality(Sections(lines)) = 2
    /\ \A j \in {Nth(Sections(lines), 1)} :
          ShowsStatus(lines[j], "pass") /\ ShowsProgress(lines[j], 0)
    /\ \A j \in {Nth(Sections(lines), 2)} :
          ShowsStatus(lines[j], "running") /\ ShowsProgress(lines[j], 50)

(***************************************************************************)
(* The complete marker and the width (SectionSpec).                        *)
(***************************************************************************)
\* the block has the complete marker and no animation marker
MarkedComplete(block) ==
    Count(block, Sec.Complete) > 0 /\ Count(block, Sec.Animated) = 0

\* C27: a section block has the complete marker and lacks the animation
\* marker exactly when the width it shows is 100%.
C27_CompleteIffFull ==
    \A j \in Sections(lines) :
        MarkedComplete(lines[j]) <=> ShowsProgress(lines[j], 100)

\* progress set to 50 after it was 100: the block shows 50% and still has
\* the complete marker and no animation marker
C27_Witness ==
    /\ call.op = "update_section_progress" /\ call.progress = 50
    /\ \E j \in Sections(lines) :
          /\ ShowsProgress(lines[j], 50)
          /\ MarkedComplete(lines[j])

(***************************************************************************)
(* end_section without a section open (TitleSpec).                         *)
(***************************************************************************)
\* the blocks that close a section container
Closings(ls) == {j \in 1..Len(ls) : ls[j] = <<Sec.SectionClose>>}

\* no more section containers closed than opened
ClosingsBounded(ls) ==
    Cardinality(Closings(ls)) <= Cardinality(Sections(ls))

\* C28: the blocks never close more section containers than the section
\* blocks opened, and end_section with no section open appends nothing.
C28_NoStrayClosing ==
    [][/\ ClosingsBounded(lines) /\ ClosingsBounded(lines')
       /\ (call'.op = "end_section" /\ current_section_title = None)
             => Appended = <<>>]_vars

\* end_section as the first call: a closing and no section
C28_Witness ==
    /\ call = [op |-> "end_section", raised |-> None, status |-> None]
    /\ ~collapsible
    /\ Sections(lines) = {}
    /\ Len(lines) = 2 /\ lines[2] = <<Sec.SectionClose>>

\* C29: end_section(status) with no section current raises nothing and
\* leaves the status and the progress of every section block as they were.
C29_NoCurrentNoPatch ==
    [][(call'.op = "end_section" /\ call'.status # None
        /\ current_section_title = None) =>
          /\ call'.raised = None
          /\ \A j \in Sections(lines) : lines'[j] = lines[j]]_vars

\* a section opened and closed, then end_section(status="pass"): TypeError
\* from the search for the title None in the block of the section
C29_Witness ==
    /\ call = [op |-> "end_section", raised |-> Some("TypeError"),
               status |-> Some("pass")]
    /\ current_section_title = None
    /\ Cardinality(Sections(lines)) = 1
    /\ Cardinality(Closings(lines)) = 1

(***************************************************************************)
(* The title of a section block (TitleSpec).                               *)
(***************************************************************************)
\* where the opening tag of the title ends: the last tag end before the
\* first status badge
TitleTagEnd(block) ==
    Greatest({i \in 1..Len(block) :
                 /\ block[i] \in {Sec.QuoteTagEnd, Tbl.TagEnd}
                 /\ \A q \in Places(block, Sec.BadgeOpen) : i < q})

\* the text between the opening tag of the title and the status badge
ShownTitle(block) ==
    SubSeq(block, TitleTagEnd(block) + 1,
           Upto(block, TitleTagEnd(block), Sec.BadgeOpen) - 1)

\* C30: a section block shows the title it was opened with, and every
\* status or progress patch leaves the title shown by every section block
\* as it was, so that the title still matches the block.
C30_TitleKept ==
    [][/\ Called("start_section") =>
             \A j \in {Len(lines')} : ShownTitle(lines'[j]) = call'.title
       /\ Patch =>
             \A j \in Sections(lines) :
                 /\ ShownTitle(lines'[j]) = ShownTitle(lines[j])
                 /\ Contains(lines'[j], ShownTitle(lines[j]))]_vars

\* the section opened as "P animated" set to 100%: its block shows the
\* title "P", and the title it was opened with matches no block
C30_Witness ==
    /\ call.op = "update_section_progress"
    /\ call.title = <<"P", Sec.Animated>>
    /\ Cardinality(Sections(lines)) = 1
    /\ \A j \in Sections(lines) :
          /\ ShownTitle(lines[j]) = <<"P">>
          /\ ShowsProgress(lines[j], 100)
    /\ Matching(lines, <<"P", Sec.Animated>>) = {}

====
